---- MODULE Spec2Model ----
(***************************************************************************)
(* The exam study planner: a SequentialAgent pipeline of three LlmAgents   *)
(* (ExtractorAgent, SchedulerAgent, FormatterAgent) and the one tool the   *)
(* formatter may call, save_study_plan.                                    *)
(*                                                                         *)
(* The hosted language model is outside the repository: every output it    *)
(* produces is an input of the model, drawn from the values the declared   *)
(* schema admits (or a malformed value the schema rejects). Hours are      *)
(* counted in tenths of an hour (4.0 h = 40), text is a sequence of        *)
(* Unicode code points, bytes are numbers 0..255 and a file name is a      *)
(* sequence of one-character strings.                                      *)
(***************************************************************************)
EXTENDS Integers, Sequences, FiniteSets, TLC

VARIABLES
    pc,             \* position of the run in study_pipeline.sub_agents
    sid,            \* session id the run was started on
    state,          \* session.state of every session: output_key -> value
    trace,          \* names of the sub-agents that have run, in order
    schedulerRead,  \* value substituted for {topics} in the scheduler prompt
    formatterRead,  \* value substituted for {raw_schedule} in the formatter prompt
    generated,      \* the SchedulerAgent model's raw output in this run
    fmt,            \* formatter position: "llm" (model's turn) or "tool"
    pending,        \* markdown_content of the last save_study_plan call
    clock,          \* the time, seconds since the epoch of the model (UTC)
    tz,             \* the time zone of the process (TZ)
    saveCall,       \* save_artifact call issued by the last save_study_plan
    artifacts,      \* the artifact store: saved artifacts in order
    toolResult,     \* string returned by the last save_study_plan call
    nSaves,         \* save_study_plan calls made in this run
    finalText,      \* AgentResponse.text of the run: a text or None
    promptTime,     \* 'The time is ...' value of the formatter prompt in this run
    inFlight        \* save_artifact calls awaited by a save_study_plan, in call order

vars == <<pc, sid, state, trace, schedulerRead, formatterRead, generated, fmt,
          pending, clock, saveCall, artifacts, toolResult, nSaves, finalText,
          promptTime, inFlight, tz>>

\* An optional value is a sequence of at most one element.
None == <<>>
Some(v) == <<v>>
Get(o) == o[1]

NoSession == "none"

----------------------------------------------------------------------------
(* Bounds of the model                                                     *)

MaxPlanLen == 2     \* entries of a generated plan
MaxSaves == 1       \* save_study_plan calls of one formatter turn
MaxTicks == 1       \* seconds after the start the clock can show
MaxCalls == 3       \* save_study_plan calls made on their own
MaxInFlight == 2    \* of them, calls awaiting save_artifact at one time

Sessions == {"session_1", "session_2"}

----------------------------------------------------------------------------
(* Numbers as text                                                         *)

\* text.split(sep)
RECURSIVE Split(_, _)
Split(text, sep) ==
    IF \A i \in 1..Len(text) : text[i] # sep
    THEN <<text>>
    ELSE LET i == CHOOSE k \in 1..Len(text) :
                      text[k] = sep /\ \A j \in 1..(k - 1) : text[j] # sep
         IN <<SubSeq(text, 1, i - 1)>>
                \o Split(SubSeq(text, i + 1, Len(text)), sep)

\* str(n) of a non-negative integer, as code points
RECURSIVE NatText(_)
NatText(n) ==
    IF n < 10 THEN <<48 + n>> ELSE NatText(n \div 10) \o <<48 + (n % 10)>>

\* str(n)
IntText(n) == IF n < 0 THEN <<45>> \o NatText(-n) ELSE NatText(n)

\* f"{hours:.1f}", hours given in tenths of an hour
HoursText(tenths) ==
    LET a == IF tenths < 0 THEN -tenths ELSE tenths
    IN (IF tenths < 0 THEN <<45>> ELSE <<>>)
           \o NatText(a \div 10) \o <<46>> \o NatText(a % 10)

\* the characters str.trim() removes (Unicode White_Space)
WhiteSpace ==
    {9, 10, 11, 12, 13, 32, 133, 160, 5760, 8232, 8233, 8239, 8287, 12288}
        \cup (8192..8202)

RECURSIVE TrimStart(_)
TrimStart(text) ==
    IF text # <<>> /\ Head(text) \in WhiteSpace
    THEN TrimStart(Tail(text)) ELSE text

RECURSIVE TrimEnd(_)
TrimEnd(text) ==
    IF text # <<>> /\ text[Len(text)] \in WhiteSpace
    THEN TrimEnd(SubSeq(text, 1, Len(text) - 1)) ELSE text

\* str.trim()
Trim(text) == TrimEnd(TrimStart(text))

\* a text of decimal digits 0-9, at least one
IsDigits(text) ==
    text # <<>> /\ \A i \in 1..Len(text) : text[i] >= 48 /\ text[i] <= 57

\* a text of decimal digits, possibly none
IsDigitsOrEmpty(text) == \A i \in 1..Len(text) : text[i] >= 48 /\ text[i] <= 57

\* the text without its sign, '+' or '-'
Unsigned(text) ==
    IF text # <<>> /\ Head(text) \in {43, 45} THEN Tail(text) ELSE text

\* the text begins with '-'
IsNegative(text) == text # <<>> /\ Head(text) = 45

\* the digits without the zeros they begin with
DropLeadingZeros(text) ==
    IF \A i \in 1..Len(text) : text[i] = 48 THEN <<>>
    ELSE SubSeq(text,
                CHOOSE k \in 1..Len(text) :
                    text[k] # 48 /\ \A j \in 1..(k - 1) : text[j] = 48,
                Len(text))

\* the digits without the zeros they end with
DropTrailingZeros(text) ==
    IF \A i \in 1..Len(text) : text[i] = 48 THEN <<>>
    ELSE SubSeq(text, 1,
                CHOOSE k \in 1..Len(text) :
                    text[k] # 48 /\ \A j \in (k + 1)..Len(text) : text[j] = 48)

RECURSIVE DigitsValue(_)
DigitsValue(text) ==
    IF text = <<>> THEN 0
    ELSE 10 * DigitsValue(SubSeq(text, 1, Len(text) - 1))
             + (text[Len(text)] - 48)

\* the first position of text holding one of chars, 0 when there is none
FirstOf(text, chars) ==
    IF \A i \in 1..Len(text) : text[i] \notin chars THEN 0
    ELSE CHOOSE k \in 1..Len(text) :
             text[k] \in chars /\ \A j \in 1..(k - 1) : text[j] \notin chars

\* the text without the characters char
Without(text, char) == SelectSeq(text, LAMBDA c : c # char)

\* NumberInt::try_from (the JSON number grammar, all of the text read):
\* '-' or none, then '0' alone or a digit 1-9 and digits after it. '-0',
\* '10' and '-7' are ints, '01', '-01', '+1', '1_0', '1.0', '' and '-' are not
IsIntLiteral(text) ==
    LET digits == IF text # <<>> /\ Head(text) = 45 THEN Tail(text) ELSE text
    IN /\ digits # <<>>
       /\ \A i \in 1..Len(digits) : digits[i] >= 48 /\ digits[i] <= 57
       /\ Head(digits) = 48 => Len(digits) = 1

\* strip_underscores: the text without its '_' when they stand singly inside
\* it, None when there is none to take out or one stands at an end or two
\* stand together
StripUnderscores(text) ==
    IF \/ 95 \notin {text[i] : i \in 1..Len(text)}
       \/ Head(text) = 95
       \/ text[Len(text)] = 95
       \/ \E i \in 1..(Len(text) - 1) : text[i] = 95 /\ text[i + 1] = 95
    THEN None
    ELSE Some(Without(text, 95))

\* strip_leading_zeros, from the i-th character of a text that begins with
\* '0': zeros and '_' are passed over, the text from a digit 1-9 or a '-' is
\* returned, a '.' is returned with the character before it, the last
\* character when there are zeros and '_' only
LeadingZerosFrom(text, i) ==
    LET stop == IF \A j \in i..Len(text) : text[j] \in {48, 95} THEN 0
                ELSE CHOOSE k \in i..Len(text) :
                         /\ text[k] \notin {48, 95}
                         /\ \A j \in i..(k - 1) : text[j] \in {48, 95}
    IN IF stop = 0 THEN Some(<<text[Len(text)]>>)
       ELSE IF (text[stop] >= 49 /\ text[stop] <= 57) \/ text[stop] = 45
       THEN Some(SubSeq(text, stop, Len(text)))
       ELSE IF text[stop] = 46 THEN Some(SubSeq(text, stop - 1, Len(text)))
       ELSE None

\* strip_leading_zeros: the text from its first digit that counts ('007' is
\* '7', '000' is '0', '00.0' is '0.0', '0-1' is '-1'), None when it does not
\* begin with a digit or '-'
StripLeadingZeros(text) ==
    IF text = <<>> THEN None
    ELSE IF (Head(text) >= 49 /\ Head(text) <= 57) \/ Head(text) = 45
    THEN Some(text)
    ELSE IF Head(text) = 48 THEN LeadingZerosFrom(text, 2)
    ELSE None

\* strip_decimal_zeros: '5.0' and '5.00' are '5'; a '.' with nothing after
\* it stays ('5.' is '5.')
StripDecimalZeros(text) ==
    LET dot == FirstOf(text, {46})
    IN IF /\ dot > 0
          /\ dot < Len(text)
          /\ \A i \in (dot + 1)..Len(text) : text[i] = 48
       THEN SubSeq(text, 1, dot - 1)
       ELSE text

\* clean_int_str, of a trimmed text: a leading '+' is taken off (not before
\* a '-'), a leading '-' is set aside (not before a '-' or '+'), then
\* leading zeros, a decimal part of zeros and single underscores are taken
\* out and the '-' is put back; None when the text does not begin as a
\* number or nothing was taken out
CleanIntStr(text) ==
    LET plus == text # <<>> /\ Head(text) = 43
        unplussed == IF plus THEN Tail(text) ELSE text
        minus == unplussed # <<>> /\ Head(unplussed) = 45
        unsigned == IF minus THEN Tail(unplussed) ELSE unplussed
        sign == IF minus THEN <<45>> ELSE <<>>
        zeros == StripLeadingZeros(unsigned)
    IN IF plus /\ minus THEN None
       ELSE IF minus /\ unsigned # <<>> /\ Head(unsigned) \in {43, 45}
       THEN None
       ELSE IF zeros = None THEN None
       ELSE LET whole == StripDecimalZeros(Get(zeros))
                under == StripUnderscores(whole)
            IN IF under # None THEN Some(sign \o Get(under))
               ELSE IF Len(whole) = Len(text) THEN None
               ELSE Some(sign \o whole)

\* the greatest length of a literal read as an int (the '-' counted)
MaxIntLen == 4300

\* An int: the number itself when it has at most 9 digits, else its sign
\* and its digits.
IntValue(negative, digits) ==
    LET d == DropLeadingZeros(digits)
    IN IF Len(d) <= 9
       THEN (IF negative THEN -DigitsValue(d) ELSE DigitsValue(d))
       ELSE [negative |-> negative, digits |-> d]

\* a literal of the grammar that is not longer than 4300 characters
ParsesAsInt(text) == Len(text) <= MaxIntLen /\ IsIntLiteral(text)

\* the cleaned string when there is one and it parses
CleanedIntLiteral(cleaned) ==
    IF cleaned = None THEN None
    ELSE IF ParsesAsInt(Get(cleaned)) THEN cleaned
    ELSE None

\* the string of a trimmed string that is parsed as an int: the string as
\* it is, or else cleaned by clean_int_str; None when neither parses
IntLiteral(trimmed) ==
    IF ParsesAsInt(trimmed) THEN Some(trimmed)
    ELSE CleanedIntLiteral(CleanIntStr(trimmed))

\* the int of the string that parsed
IntOfLiteral(literal) ==
    IF literal = None THEN None
    ELSE Some(IntValue(IsNegative(Get(literal)), Unsigned(Get(literal))))

\* the int a string is read as by a field of type int (pydantic, lax mode:
\* str_as_int), None when it is refused: the trimmed string parsed as it is
\* (by the JSON number grammar), or else cleaned by clean_int_str and
\* parsed the same way. ' 2', '+2', '007', '-01', '2.0', '1_000', '0-1' and
\* '-5' are ints, '5.5', '5.', '+-5', '-_1', '0-01', '1e1', '', '-' and
\* 'abc' are not. A literal of more than 4300 characters is refused, a
\* longer string whose literal is shorter is read. (A string that is read
\* has ASCII characters only, so that its length in characters is its
\* length in bytes.)
StrAsInt(text) == IntOfLiteral(IntLiteral(Trim(text)))

\* a string the schema converts to an int
IsIntText(text) == StrAsInt(text) # None
ToInt(text) == Get(StrAsInt(text))

\* the text with A-Z as a-z
LowerAscii(text) ==
    [i \in 1..Len(text) |->
        IF text[i] >= 65 /\ text[i] <= 90 THEN text[i] + 32 ELSE text[i]]

\* 'inf', 'infinity', 'nan'
InfinityNames == {<<105, 110, 102>>, <<105, 110, 102, 105, 110, 105, 116, 121>>}
NanName == <<110, 97, 110>>

\* the mantissa of a float literal, before its exponent: digits with at
\* most one '.', a digit on one side of it at least
IsMantissa(text) ==
    LET parts == Split(text, 46)
    IN \/ Len(parts) = 1 /\ IsDigits(parts[1])
       \/ /\ Len(parts) = 2
          /\ IsDigitsOrEmpty(parts[1]) /\ IsDigitsOrEmpty(parts[2])
          /\ parts[1] \o parts[2] # <<>>

\* s.parse::<f64>(): a sign or none, then 'inf', 'infinity', 'nan' (in any
\* case) or a mantissa with an exponent 'e', sign, digits, or without one
IsFloatLiteral(text) ==
    LET u == Unsigned(text)
        e == FirstOf(u, {69, 101})
    IN \/ LowerAscii(u) \in InfinityNames \cup {NanName}
       \/ e = 0 /\ IsMantissa(u)
       \/ /\ e > 0
          /\ IsMantissa(SubSeq(u, 1, e - 1))
          /\ IsDigits(Unsigned(SubSeq(u, e + 1, Len(u))))

\* the float literal a string is read as by a field of type float (pydantic,
\* lax mode: str_as_float): the string trimmed, or else the string as it is
\* (not trimmed) with its single underscores taken out; None when it is
\* refused
FloatLiteral(text) ==
    IF IsFloatLiteral(Trim(text)) THEN Some(Trim(text))
    ELSE LET under == StripUnderscores(text)
         IN IF under # None /\ IsFloatLiteral(Get(under)) THEN under
            ELSE None

\* a string the schema converts to a float: '4', '5.5', '-0.5', '+5.50',
\* '.5', '4.', ' 4.0', '1e1', '1_0.5', 'inf', 'nan'; ' 1_0' is none
IsFloatText(text) == FloatLiteral(text) # None

RECURSIVE TenTo(_)
TenTo(n) == IF n = 0 THEN 1 ELSE 10 * TenTo(n - 1)

----------------------------------------------------------------------------
(* Natural numbers of any size                                             *)

\* A natural number is the sequence of its digits in base Limb, the least
\* first, without zeros at the top; 0 is <<>>. The operators work on halves
\* of the digits so that none is nested deeper than the logarithm of the
\* length.
Limb == 10000

\* the number written with the decimal digits (code points, no zero first)
NatFromDigits(digits) ==
    LET n == Len(digits)
    IN [i \in 1..((n + 3) \div 4) |->
           DigitsValue(SubSeq(digits,
                              IF n - 4 * i + 1 < 1 THEN 1 ELSE n - 4 * i + 1,
                              n - 4 * i + 4))]

RECURSIVE NatTimesRange(_, _, _, _, _)
\* the digits lo to hi of a * m + carry * Limb^(lo - 1), the digits of a
\* below lo left out, and what is carried over them (m and carry below
\* Limb)
NatTimesRange(a, lo, hi, m, carry) ==
    IF lo > hi THEN [digits |-> <<>>, carry |-> carry]
    ELSE IF lo = hi
    THEN LET t == a[lo] * m + carry
         IN [digits |-> <<t % Limb>>, carry |-> t \div Limb]
    ELSE LET mid == (lo + hi) \div 2
             low == NatTimesRange(a, lo, mid, m, carry)
             high == NatTimesRange(a, mid + 1, hi, m, low.carry)
         IN [digits |-> low.digits \o high.digits, carry |-> high.carry]

\* a * m + carry
NatTimesPlus(a, m, carry) ==
    LET r == NatTimesRange(a, 1, Len(a), m, carry)
    IN r.digits \o (IF r.carry = 0 THEN <<>> ELSE <<r.carry>>)

\* a * m
NatTimes(a, m) == NatTimesPlus(a, m, 0)

RECURSIVE TwoTo(_)
TwoTo(n) == IF n = 0 THEN 1 ELSE 2 * TwoTo(n - 1)

RECURSIVE FiveTo(_)
FiveTo(n) == IF n = 0 THEN 1 ELSE 5 * FiveTo(n - 1)

RECURSIVE NatTimesTwoTo(_, _)
\* a * 2^n, by halves of n
NatTimesTwoTo(a, n) ==
    IF n <= 13 THEN NatTimes(a, TwoTo(n))
    ELSE LET half == NatTimesTwoTo(a, n \div 2)
         IN IF half = <<>> THEN <<>>
            ELSE NatTimesTwoTo(half, n - n \div 2)

RECURSIVE NatTimesFiveTo(_, _)
\* a * 5^n, by halves of n
NatTimesFiveTo(a, n) ==
    IF n <= 5 THEN NatTimes(a, FiveTo(n))
    ELSE LET half == NatTimesFiveTo(a, n \div 2)
         IN IF half = <<>> THEN <<>>
            ELSE NatTimesFiveTo(half, n - n \div 2)

\* a * 10^n
NatTimesTenTo(a, n) ==
    IF a = <<>> THEN <<>>
    ELSE [i \in 1..(n \div 4) |-> 0] \o NatTimes(a, TenTo(n % 4))

RECURSIVE TopDifference(_, _, _, _)
\* the greatest of the places lo to hi where a and b differ, 0 when they
\* agree there
TopDifference(a, b, lo, hi) ==
    IF lo > hi THEN 0
    ELSE IF lo = hi THEN (IF a[lo] # b[lo] THEN lo ELSE 0)
    ELSE LET mid == (lo + hi) \div 2
             top == TopDifference(a, b, mid + 1, hi)
         IN IF top # 0 THEN top ELSE TopDifference(a, b, lo, mid)

\* a < b
NatLess(a, b) ==
    IF Len(a) # Len(b) THEN Len(a) < Len(b)
    ELSE LET top == TopDifference(a, b, 1, Len(a))
         IN top # 0 /\ a[top] < b[top]

RECURSIVE NatMinusRange(_, _, _, _, _)
\* the digits lo to hi of a - b - borrow * Limb^(lo - 1), and what is
\* borrowed above them
NatMinusRange(a, b, lo, hi, borrow) ==
    IF lo > hi THEN [digits |-> <<>>, borrow |-> borrow]
    ELSE IF lo = hi
    THEN LET d == a[lo] - (IF lo <= Len(b) THEN b[lo] ELSE 0) - borrow
         IN [digits |-> <<IF d < 0 THEN d + Limb ELSE d>>,
             borrow |-> IF d < 0 THEN 1 ELSE 0]
    ELSE LET mid == (lo + hi) \div 2
             low == NatMinusRange(a, b, lo, mid, borrow)
             high == NatMinusRange(a, b, mid + 1, hi, low.borrow)
         IN [digits |-> low.digits \o high.digits, borrow |-> high.borrow]

\* the digits without the zeros at their top
NatTrim(a) ==
    SubSeq(a, 1, TopDifference(a, [i \in 1..Len(a) |-> 0], 1, Len(a)))

\* a - b, for a >= b
NatMinus(a, b) == NatTrim(NatMinusRange(a, b, 1, Len(a), 0).digits)

RECURSIVE QuotientBits(_, _, _, _)
\* the division of r by m, for r < m * 2^(hi + 1): the binary digits of
\* the quotient of the places hi down to lo (the greatest first) and what
\* is left of r below m * 2^lo
QuotientBits(r, m, hi, lo) ==
    IF hi = lo
    THEN LET d == NatTimesTwoTo(m, hi)
             one == ~NatLess(r, d)
         IN [bits |-> <<IF one THEN 1 ELSE 0>>,
             rest |-> IF one THEN NatMinus(r, d) ELSE r]
    ELSE LET mid == (hi + lo + 1) \div 2
             upper == QuotientBits(r, m, hi, mid)
             lower == QuotientBits(upper.rest, m, mid - 1, lo)
         IN [bits |-> upper.bits \o lower.bits, rest |-> lower.rest]

RECURSIVE BitsValue(_)
\* the number of at most 13 binary digits (the greatest first)
BitsValue(bits) ==
    IF bits = <<>> THEN 0
    ELSE 2 * BitsValue(SubSeq(bits, 1, Len(bits) - 1)) + bits[Len(bits)]

RECURSIVE NatFromBits(_)
\* the number of the binary digits (the greatest first), 13 at a time
NatFromBits(bits) ==
    IF Len(bits) <= 13
    THEN (IF BitsValue(bits) = 0 THEN <<>> ELSE <<BitsValue(bits)>>)
    ELSE NatTimesPlus(NatFromBits(SubSeq(bits, 1, Len(bits) - 13)), 8192,
                      BitsValue(SubSeq(bits, Len(bits) - 12, Len(bits))))

\* the four decimal digits of a digit in base Limb
LimbText(n) ==
    <<48 + (n \div 1000), 48 + ((n \div 100) % 10), 48 + ((n \div 10) % 10),
      48 + (n % 10)>>

\* the decimal digits of a (code points), '' for 0
NatDigits(a) ==
    IF a = <<>> THEN <<>>
    ELSE NatText(a[Len(a)])
             \o [k \in 1..(4 * (Len(a) - 1)) |->
                    LimbText(a[Len(a) - 1 - ((k - 1) \div 4)])[((k - 1) % 4) + 1]]

----------------------------------------------------------------------------
(* Floats                                                                  *)

\* A float (an IEEE 754 double) that is no NaN, without its sign: the
\* binary digits of its significand (the greatest first, 53 at most, none
\* for 0) and its binary exponent, the value being significand * 2^exponent.
\* Infinity is the significand 1 with the exponent 1024.
MantissaBits == 53
MinExponent == -1074
MaxExponent == 1024
Zero == [bits |-> <<>>, exponent |-> 0]
Infinity == [bits |-> <<1>>, exponent |-> MaxExponent]

\* the binary digits without the zeros they begin with
DropLeadingBits(bits) ==
    LET first == FirstOf(bits, {1})
    IN IF first = 0 THEN <<>> ELSE SubSeq(bits, first, Len(bits))

\* the digits (binary, or decimal code points) of the number after that of
\* `digits`, `last` being the greatest digit and `zero` the least
DigitsPlusOne(digits, zero, last) ==
    LET n == Len(digits)
        at == IF \A i \in 1..n : digits[i] = last THEN 0
              ELSE CHOOSE k \in 1..n :
                       digits[k] # last /\ \A j \in (k + 1)..n : digits[j] = last
    IN IF at = 0 THEN <<zero + 1>> \o [i \in 1..n |-> zero]
       ELSE [i \in 1..n |-> IF i < at THEN digits[i]
                            ELSE IF i = at THEN digits[i] + 1 ELSE zero]

\* the binary exponent of the last digit kept of len binary digits
\* counted from 2^scale: that of the 53rd, 2^-1074 at least
FloatExponent(len, scale) ==
    IF scale + len - MantissaBits < MinExponent
    THEN MinExponent ELSE scale + len - MantissaBits

\* the float of the rounded digits: 0 when there are none, one digit less
\* when the rounding carried into a 54th, Infinity when it is out of range
RoundedFloat(rounded, exponent) ==
    IF rounded = <<>> THEN Zero
    ELSE IF Len(rounded) > MantissaBits
    THEN (IF MantissaBits + exponent + 1 > MaxExponent THEN Infinity
          ELSE [bits |-> SubSeq(rounded, 1, MantissaBits),
                exponent |-> exponent + 1])
    ELSE IF Len(rounded) + exponent > MaxExponent THEN Infinity
    ELSE [bits |-> rounded, exponent |-> exponent]

\* the first `keep` of the digits, rounded to nearest, a tie to the even
\* one
RoundBits(bits, exact, keep) ==
    LET len == Len(bits)
        kept == IF keep <= 0 THEN <<>>
                ELSE IF keep <= len THEN SubSeq(bits, 1, keep)
                ELSE bits \o [i \in 1..(keep - len) |-> 0]
        half == keep >= 0 /\ keep < len /\ bits[keep + 1] = 1
        more == ~exact \/ \E i \in (keep + 2)..len : bits[i] = 1
    IN IF half /\ (more \/ (kept # <<>> /\ kept[Len(kept)] = 1))
       THEN DigitsPlusOne(kept, 0, 1) ELSE kept

\* The float nearest to (bits + f) * 2^scale, for binary digits bits
\* without a zero first and a fraction f below 1 that is 0 exactly when
\* `exact`: the digits are cut to 53, or to those above 2^-1074, and
\* rounded to nearest, a tie to the even one.
RoundToFloat(bits, exact, scale) ==
    RoundedFloat(
        RoundBits(bits, exact,
                  Len(bits) - (FloatExponent(Len(bits), scale) - scale)),
        FloatExponent(Len(bits), scale))

\* the binary digits the quotient of FloatOf has at most
QuotientLen == 64

\* the float of the quotient q of a division by QuotientBits
QuotientFloat(q, scale) ==
    RoundToFloat(DropLeadingBits(q.bits), q.rest = <<>>, scale)

\* the binary exponent by which FloatOf scales a number of `size` decimal
\* digits before the point
FloatScale(size) ==
    IF ((size - 1) * 3321928) \div 1000000 - 1 - MantissaBits
           < MinExponent - 1
    THEN MinExponent - 1
    ELSE ((size - 1) * 3321928) \div 1000000 - 1 - MantissaBits

\* digits * 10^power / 2^scale, rounded to a float
ScaledFloat(digits, power, scale) ==
    QuotientFloat(
        QuotientBits(
            NatTimesTwoTo(NatTimesTenTo(NatFromDigits(digits),
                                        IF power > 0 THEN power ELSE 0),
                          IF scale < 0 THEN -scale ELSE 0),
            NatTimesTwoTo(NatTimesTenTo(<<1>>,
                                        IF power < 0 THEN -power ELSE 0),
                          IF scale > 0 THEN scale ELSE 0),
            QuotientLen - 1, 0),
        scale)

\* The float nearest to digits * 10^power (decimal digits, no zero first,
\* one at least). A number of 10^309 or more is Infinity and one below
\* 10^-324 is 0. For the others the number is divided by 2^scale, scale
\* chosen below the binary exponent of the number (by 3.321928 < log2(10) <
\* 3.321929) so that the quotient has 54 to 60 binary digits, or -1075 when
\* that is more.
FloatOf(digits, power) ==
    IF Len(digits) + power > 309 THEN Infinity
    ELSE IF Len(digits) + power < -323 THEN Zero
    ELSE ScaledFloat(digits, power, FloatScale(Len(digits) + power))

\* the decimal of the digits `all` (with the zeros they end in) at the
\* power of ten `exponent`
TrimmedDecimal(all, exponent) ==
    [digits |-> DropTrailingZeros(all),
     exponent |-> exponent + (Len(all) - Len(DropTrailingZeros(all)))]

\* the decimal digits and the power of ten of a float that is neither 0 nor
\* Infinity, in full: bits * 2^exponent is bits * 5^-exponent * 10^exponent
\* for an exponent below 0
ExactDecimal(float) ==
    TrimmedDecimal(
        NatDigits(IF float.exponent >= 0
                  THEN NatTimesTwoTo(NatFromBits(float.bits), float.exponent)
                  ELSE NatTimesFiveTo(NatFromBits(float.bits),
                                      -float.exponent)),
        IF float.exponent >= 0 THEN 0 ELSE float.exponent)

\* the first n of the digits, rounded to nearest (n below their number)
RoundDigits(digits, n) ==
    LET kept == SubSeq(digits, 1, n)
        next == digits[n + 1]
        more == \E i \in (n + 2)..Len(digits) : digits[i] # 48
    IN IF next > 53 \/ (next = 53 /\ (more \/ kept[n] % 2 = 1))
       THEN DigitsPlusOne(kept, 48, 57) ELSE kept

RECURSIVE ShortestFrom(_, _, _)
\* the decimal when it is read as the float, else the shortest of more
\* digits
ShortestOr(float, decimal, rounded, n) ==
    IF FloatOf(rounded.digits, rounded.exponent) = float THEN rounded
    ELSE ShortestFrom(float, decimal, n + 1)

\* repr(float): the decimal of fewest digits, n at least, that is read as
\* the float, the nearest to it of that many digits
ShortestFrom(float, decimal, n) ==
    IF n >= Len(decimal.digits) THEN decimal
    ELSE ShortestOr(float, decimal,
                    TrimmedDecimal(RoundDigits(decimal.digits, n),
                                   decimal.exponent
                                       + (Len(decimal.digits) - n)),
                    n)

\* the decimal digits and power of ten by which a float that is neither 0
\* nor Infinity is written
Shortest(float) == ShortestFrom(float, ExactDecimal(float), 1)

\* the exponent of a float literal, a million when it is more (no float is
\* that large, none but 0 that small)
ExponentValue(text) ==
    LET d == DropLeadingZeros(Unsigned(text))
        n == IF Len(d) > 6 THEN 1000000 ELSE DigitsValue(d)
    IN IF IsNegative(text) THEN -n ELSE n

\* the decimal of a mantissa given as its parts before and after the '.'
\* (one part when there is none) with the exponent written after it
MantissaDecimal(parts, exponent) ==
    TrimmedDecimal(
        DropLeadingZeros(parts[1] \o (IF Len(parts) = 2 THEN parts[2]
                                      ELSE <<>>)),
        exponent - (IF Len(parts) = 2 THEN Len(parts[2]) ELSE 0))

\* the decimal of an unsigned float literal whose exponent mark is at e (0:
\* none)
UnsignedDecimal(u, e) ==
    MantissaDecimal(Split(IF e = 0 THEN u ELSE SubSeq(u, 1, e - 1), 46),
                    IF e = 0 THEN 0
                    ELSE ExponentValue(SubSeq(u, e + 1, Len(u))))

\* the digits (without zeros at their ends) and the power of ten of the
\* decimal a float literal writes
Decimal(text) ==
    UnsignedDecimal(Unsigned(text), FirstOf(Unsigned(text), {69, 101}))

\* A float as the model counts it, from its sign and the decimal by which
\* it is written: hours are counted in tenths, so a float that is a whole
\* number of tenths of at most 9 digits is that number; any other is its
\* sign, digits and power of ten (digits * 10^exponent).
FloatValue(negative, decimal) ==
    IF decimal.exponent >= -1
           /\ Len(decimal.digits) + decimal.exponent + 1 <= 9
    THEN LET tenths == DigitsValue(decimal.digits)
                           * TenTo(decimal.exponent + 1)
         IN IF negative THEN -tenths ELSE tenths
    ELSE [negative |-> negative, digits |-> decimal.digits,
          exponent |-> decimal.exponent]

\* the digits a float keeps of any decimal, and the powers of ten between
\* which a decimal of that many digits is the shortest of its float
FloatDigits == 15
SafePower == 290

\* the value of a float with its sign
RoundedValue(negative, float) ==
    IF float = Infinity THEN (IF negative THEN "-inf" ELSE "inf")
    ELSE IF float = Zero THEN 0
    ELSE FloatValue(negative, Shortest(float))

\* the value of a decimal with its sign
DecimalValue(negative, decimal) ==
    IF decimal.digits = <<>> THEN 0
    ELSE IF /\ Len(decimal.digits) <= FloatDigits
            /\ decimal.exponent >= -SafePower
            /\ Len(decimal.digits) + decimal.exponent <= SafePower
    THEN FloatValue(negative, decimal)
    ELSE RoundedValue(negative, FloatOf(decimal.digits, decimal.exponent))

\* The value of a float literal: 'nan', 'inf' and '-inf' are themselves,
\* any other is the float nearest to the decimal written (Infinity from
\* 1.8 * 10^308 on, 0 below 2.5 * 10^-324), counted as FloatValue counts it
\* from the shortest decimal read as that float: '0.10000000000000000001'
\* is 0.1. A decimal of at most 15 digits within a float's range is itself
\* that shortest decimal.
LiteralValue(text) ==
    IF LowerAscii(Unsigned(text)) = NanName THEN "nan"
    ELSE IF LowerAscii(Unsigned(text)) \in InfinityNames
    THEN (IF IsNegative(text) THEN "-inf" ELSE "inf")
    ELSE DecimalValue(IsNegative(text), Decimal(text))

\* float(text), in tenths
ToTenths(text) == LiteralValue(Get(FloatLiteral(text)))

\* 'abc', a string no number can be made of
NotANumber == <<97, 98, 99>>

----------------------------------------------------------------------------
(* Schemas                                                                 *)

\* 4.0 hours, in tenths of an hour
MAX_DAILY_HOURS == 40

Days == {1, 2}
HoursValues == {-5, 0, 40, 55}
TotalHoursValues == {0, 40}
TotalDaysValues == {0, 1}

\* StudyDay.task as code points: "Study", "Break"
StudyTask == <<83, 116, 117, 100, 121>>
BreakTask == <<66, 114, 101, 97, 107>>
Tasks == {StudyTask, BreakTask}

\* class StudyDay: the fields the constraints are about (date is left at its
\* default, None)
StudyDay == [day : Days, task : Tasks, estimated_hours : HoursValues]

\* str.lower() follows the Unicode character database (version 15.0 here).
\* The code points whose lowercase is another single code point, as ranges
\* <<first, last, step, difference>>: A-Z, the capitals of Latin-1, Greek,
\* Cyrillic, ..., the Kelvin sign
LowerRanges ==
    <<<<65, 90, 1, 32>>, <<192, 214, 1, 32>>, <<216, 222, 1, 32>>,
      <<256, 302, 2, 1>>, <<306, 310, 2, 1>>, <<313, 327, 2, 1>>,
      <<330, 374, 2, 1>>, <<376, 376, 1, -121>>, <<377, 381, 2, 1>>,
      <<385, 385, 1, 210>>, <<386, 388, 2, 1>>, <<390, 390, 1, 206>>,
      <<391, 391, 1, 1>>, <<393, 394, 1, 205>>, <<395, 395, 1, 1>>,
      <<398, 398, 1, 79>>, <<399, 399, 1, 202>>, <<400, 400, 1, 203>>,
      <<401, 401, 1, 1>>, <<403, 403, 1, 205>>, <<404, 404, 1, 207>>,
      <<406, 406, 1, 211>>, <<407, 407, 1, 209>>, <<408, 408, 1, 1>>,
      <<412, 412, 1, 211>>, <<413, 413, 1, 213>>, <<415, 415, 1, 214>>,
      <<416, 420, 2, 1>>, <<422, 422, 1, 218>>, <<423, 423, 1, 1>>,
      <<425, 425, 1, 218>>, <<428, 428, 1, 1>>, <<430, 430, 1, 218>>,
      <<431, 431, 1, 1>>, <<433, 434, 1, 217>>, <<435, 437, 2, 1>>,
      <<439, 439, 1, 219>>, <<440, 440, 1, 1>>, <<444, 444, 1, 1>>,
      <<452, 452, 1, 2>>, <<453, 453, 1, 1>>, <<455, 455, 1, 2>>,
      <<456, 456, 1, 1>>, <<458, 458, 1, 2>>, <<459, 475, 2, 1>>,
      <<478, 494, 2, 1>>, <<497, 497, 1, 2>>, <<498, 500, 2, 1>>,
      <<502, 502, 1, -97>>, <<503, 503, 1, -56>>, <<504, 542, 2, 1>>,
      <<544, 544, 1, -130>>, <<546, 562, 2, 1>>, <<570, 570, 1, 10795>>,
      <<571, 571, 1, 1>>, <<573, 573, 1, -163>>, <<574, 574, 1, 10792>>,
      <<577, 577, 1, 1>>, <<579, 579, 1, -195>>, <<580, 580, 1, 69>>,
      <<581, 581, 1, 71>>, <<582, 590, 2, 1>>, <<880, 882, 2, 1>>,
      <<886, 886, 1, 1>>, <<895, 895, 1, 116>>, <<902, 902, 1, 38>>,
      <<904, 906, 1, 37>>, <<908, 908, 1, 64>>, <<910, 911, 1, 63>>,
      <<913, 929, 1, 32>>, <<931, 939, 1, 32>>, <<975, 975, 1, 8>>,
      <<984, 1006, 2, 1>>, <<1012, 1012, 1, -60>>, <<1015, 1015, 1, 1>>,
      <<1017, 1017, 1, -7>>, <<1018, 1018, 1, 1>>, <<1021, 1023, 1, -130>>,
      <<1024, 1039, 1, 80>>, <<1040, 1071, 1, 32>>, <<1120, 1152, 2, 1>>,
      <<1162, 1214, 2, 1>>, <<1216, 1216, 1, 15>>, <<1217, 1229, 2, 1>>,
      <<1232, 1326, 2, 1>>, <<1329, 1366, 1, 48>>, <<4256, 4293, 1, 7264>>,
      <<4295, 4295, 1, 7264>>, <<4301, 4301, 1, 7264>>,
      <<5024, 5103, 1, 38864>>, <<5104, 5109, 1, 8>>,
      <<7312, 7354, 1, -3008>>, <<7357, 7359, 1, -3008>>,
      <<7680, 7828, 2, 1>>, <<7838, 7838, 1, -7615>>, <<7840, 7934, 2, 1>>,
      <<7944, 7951, 1, -8>>, <<7960, 7965, 1, -8>>, <<7976, 7983, 1, -8>>,
      <<7992, 7999, 1, -8>>, <<8008, 8013, 1, -8>>, <<8025, 8031, 2, -8>>,
      <<8040, 8047, 1, -8>>, <<8072, 8079, 1, -8>>, <<8088, 8095, 1, -8>>,
      <<8104, 8111, 1, -8>>, <<8120, 8121, 1, -8>>, <<8122, 8123, 1, -74>>,
      <<8124, 8124, 1, -9>>, <<8136, 8139, 1, -86>>, <<8140, 8140, 1, -9>>,
      <<8152, 8153, 1, -8>>, <<8154, 8155, 1, -100>>, <<8168, 8169, 1, -8>>,
      <<8170, 8171, 1, -112>>, <<8172, 8172, 1, -7>>, <<8184, 8185, 1, -128>>,
      <<8186, 8187, 1, -126>>, <<8188, 8188, 1, -9>>,
      <<8486, 8486, 1, -7517>>, <<8490, 8490, 1, -8383>>,
      <<8491, 8491, 1, -8262>>, <<8498, 8498, 1, 28>>, <<8544, 8559, 1, 16>>,
      <<8579, 8579, 1, 1>>, <<9398, 9423, 1, 26>>, <<11264, 11311, 1, 48>>,
      <<11360, 11360, 1, 1>>, <<11362, 11362, 1, -10743>>,
      <<11363, 11363, 1, -3814>>, <<11364, 11364, 1, -10727>>,
      <<11367, 11371, 2, 1>>, <<11373, 11373, 1, -10780>>,
      <<11374, 11374, 1, -10749>>, <<11375, 11375, 1, -10783>>,
      <<11376, 11376, 1, -10782>>, <<11378, 11378, 1, 1>>,
      <<11381, 11381, 1, 1>>, <<11390, 11391, 1, -10815>>,
      <<11392, 11490, 2, 1>>, <<11499, 11501, 2, 1>>, <<11506, 11506, 1, 1>>,
      <<42560, 42604, 2, 1>>, <<42624, 42650, 2, 1>>, <<42786, 42798, 2, 1>>,
      <<42802, 42862, 2, 1>>, <<42873, 42875, 2, 1>>,
      <<42877, 42877, 1, -35332>>, <<42878, 42886, 2, 1>>,
      <<42891, 42891, 1, 1>>, <<42893, 42893, 1, -42280>>,
      <<42896, 42898, 2, 1>>, <<42902, 42920, 2, 1>>,
      <<42922, 42922, 1, -42308>>, <<42923, 42923, 1, -42319>>,
      <<42924, 42924, 1, -42315>>, <<42925, 42925, 1, -42305>>,
      <<42926, 42926, 1, -42308>>, <<42928, 42928, 1, -42258>>,
      <<42929, 42929, 1, -42282>>, <<42930, 42930, 1, -42261>>,
      <<42931, 42931, 1, 928>>, <<42932, 42946, 2, 1>>,
      <<42948, 42948, 1, -48>>, <<42949, 42949, 1, -42307>>,
      <<42950, 42950, 1, -35384>>, <<42951, 42953, 2, 1>>,
      <<42960, 42960, 1, 1>>, <<42966, 42968, 2, 1>>, <<42997, 42997, 1, 1>>,
      <<65313, 65338, 1, 32>>, <<66560, 66599, 1, 40>>,
      <<66736, 66771, 1, 40>>, <<66928, 66938, 1, 39>>,
      <<66940, 66954, 1, 39>>, <<66956, 66962, 1, 39>>,
      <<66964, 66965, 1, 39>>, <<68736, 68786, 1, 64>>,
      <<71840, 71871, 1, 32>>, <<93760, 93791, 1, 32>>,
      <<125184, 125217, 1, 34>>>>

\* The code points that are Cased and not Case_Ignorable, as ranges
\* <<first, last>>
CasedRanges ==
    <<<<65, 90>>, <<97, 122>>, <<170, 170>>,
      <<181, 181>>, <<186, 186>>, <<192, 214>>,
      <<216, 246>>, <<248, 442>>, <<444, 447>>,
      <<452, 659>>, <<661, 687>>, <<880, 883>>,
      <<886, 887>>, <<891, 893>>, <<895, 895>>,
      <<902, 902>>, <<904, 906>>, <<908, 908>>,
      <<910, 929>>, <<931, 1013>>, <<1015, 1153>>,
      <<1162, 1327>>, <<1329, 1366>>, <<1376, 1416>>,
      <<4256, 4293>>, <<4295, 4295>>, <<4301, 4301>>,
      <<4304, 4346>>, <<4349, 4351>>, <<5024, 5109>>,
      <<5112, 5117>>, <<7296, 7304>>, <<7312, 7354>>,
      <<7357, 7359>>, <<7424, 7467>>, <<7531, 7543>>,
      <<7545, 7578>>, <<7680, 7957>>, <<7960, 7965>>,
      <<7968, 8005>>, <<8008, 8013>>, <<8016, 8023>>,
      <<8025, 8025>>, <<8027, 8027>>, <<8029, 8029>>,
      <<8031, 8061>>, <<8064, 8116>>, <<8118, 8124>>,
      <<8126, 8126>>, <<8130, 8132>>, <<8134, 8140>>,
      <<8144, 8147>>, <<8150, 8155>>, <<8160, 8172>>,
      <<8178, 8180>>, <<8182, 8188>>, <<8450, 8450>>,
      <<8455, 8455>>, <<8458, 8467>>, <<8469, 8469>>,
      <<8473, 8477>>, <<8484, 8484>>, <<8486, 8486>>,
      <<8488, 8488>>, <<8490, 8493>>, <<8495, 8500>>,
      <<8505, 8505>>, <<8508, 8511>>, <<8517, 8521>>,
      <<8526, 8526>>, <<8544, 8575>>, <<8579, 8580>>,
      <<9398, 9449>>, <<11264, 11387>>, <<11390, 11492>>,
      <<11499, 11502>>, <<11506, 11507>>, <<11520, 11557>>,
      <<11559, 11559>>, <<11565, 11565>>, <<42560, 42605>>,
      <<42624, 42651>>, <<42786, 42863>>, <<42865, 42887>>,
      <<42891, 42894>>, <<42896, 42954>>, <<42960, 42961>>,
      <<42963, 42963>>, <<42965, 42969>>, <<42997, 42998>>,
      <<43002, 43002>>, <<43824, 43866>>, <<43872, 43880>>,
      <<43888, 43967>>, <<64256, 64262>>, <<64275, 64279>>,
      <<65313, 65338>>, <<65345, 65370>>, <<66560, 66639>>,
      <<66736, 66771>>, <<66776, 66811>>, <<66928, 66938>>,
      <<66940, 66954>>, <<66956, 66962>>, <<66964, 66965>>,
      <<66967, 66977>>, <<66979, 66993>>, <<66995, 67001>>,
      <<67003, 67004>>, <<68736, 68786>>, <<68800, 68850>>,
      <<71840, 71903>>, <<93760, 93823>>, <<119808, 119892>>,
      <<119894, 119964>>, <<119966, 119967>>, <<119970, 119970>>,
      <<119973, 119974>>, <<119977, 119980>>, <<119982, 119993>>,
      <<119995, 119995>>, <<119997, 120003>>, <<120005, 120069>>,
      <<120071, 120074>>, <<120077, 120084>>, <<120086, 120092>>,
      <<120094, 120121>>, <<120123, 120126>>, <<120128, 120132>>,
      <<120134, 120134>>, <<120138, 120144>>, <<120146, 120485>>,
      <<120488, 120512>>, <<120514, 120538>>, <<120540, 120570>>,
      <<120572, 120596>>, <<120598, 120628>>, <<120630, 120654>>,
      <<120656, 120686>>, <<120688, 120712>>, <<120714, 120744>>,
      <<120746, 120770>>, <<120772, 120779>>, <<122624, 122633>>,
      <<122635, 122654>>, <<122661, 122666>>, <<125184, 125251>>,
      <<127280, 127305>>, <<127312, 127337>>, <<127344, 127369>>>>

\* The code points that are Case_Ignorable (marks, apostrophes, modifier
\* letters, ...), as ranges <<first, last>>
CaseIgnorableRanges ==
    <<<<39, 39>>, <<46, 46>>, <<58, 58>>,
      <<94, 94>>, <<96, 96>>, <<168, 168>>,
      <<173, 173>>, <<175, 175>>, <<180, 180>>,
      <<183, 184>>, <<688, 879>>, <<884, 885>>,
      <<890, 890>>, <<900, 901>>, <<903, 903>>,
      <<1155, 1161>>, <<1369, 1369>>, <<1375, 1375>>,
      <<1425, 1469>>, <<1471, 1471>>, <<1473, 1474>>,
      <<1476, 1477>>, <<1479, 1479>>, <<1524, 1524>>,
      <<1536, 1541>>, <<1552, 1562>>, <<1564, 1564>>,
      <<1600, 1600>>, <<1611, 1631>>, <<1648, 1648>>,
      <<1750, 1757>>, <<1759, 1768>>, <<1770, 1773>>,
      <<1807, 1807>>, <<1809, 1809>>, <<1840, 1866>>,
      <<1958, 1968>>, <<2027, 2037>>, <<2042, 2042>>,
      <<2045, 2045>>, <<2070, 2093>>, <<2137, 2139>>,
      <<2184, 2184>>, <<2192, 2193>>, <<2200, 2207>>,
      <<2249, 2306>>, <<2362, 2362>>, <<2364, 2364>>,
      <<2369, 2376>>, <<2381, 2381>>, <<2385, 2391>>,
      <<2402, 2403>>, <<2417, 2417>>, <<2433, 2433>>,
      <<2492, 2492>>, <<2497, 2500>>, <<2509, 2509>>,
      <<2530, 2531>>, <<2558, 2558>>, <<2561, 2562>>,
      <<2620, 2620>>, <<2625, 2626>>, <<2631, 2632>>,
      <<2635, 2637>>, <<2641, 2641>>, <<2672, 2673>>,
      <<2677, 2677>>, <<2689, 2690>>, <<2748, 2748>>,
      <<2753, 2757>>, <<2759, 2760>>, <<2765, 2765>>,
      <<2786, 2787>>, <<2810, 2815>>, <<2817, 2817>>,
      <<2876, 2876>>, <<2879, 2879>>, <<2881, 2884>>,
      <<2893, 2893>>, <<2901, 2902>>, <<2914, 2915>>,
      <<2946, 2946>>, <<3008, 3008>>, <<3021, 3021>>,
      <<3072, 3072>>, <<3076, 3076>>, <<3132, 3132>>,
      <<3134, 3136>>, <<3142, 3144>>, <<3146, 3149>>,
      <<3157, 3158>>, <<3170, 3171>>, <<3201, 3201>>,
      <<3260, 3260>>, <<3263, 3263>>, <<3270, 3270>>,
      <<3276, 3277>>, <<3298, 3299>>, <<3328, 3329>>,
      <<3387, 3388>>, <<3393, 3396>>, <<3405, 3405>>,
      <<3426, 3427>>, <<3457, 3457>>, <<3530, 3530>>,
      <<3538, 3540>>, <<3542, 3542>>, <<3633, 3633>>,
      <<3636, 3642>>, <<3654, 3662>>, <<3761, 3761>>,
      <<3764, 3772>>, <<3782, 3782>>, <<3784, 3790>>,
      <<3864, 3865>>, <<3893, 3893>>, <<3895, 3895>>,
      <<3897, 3897>>, <<3953, 3966>>, <<3968, 3972>>,
      <<3974, 3975>>, <<3981, 3991>>, <<3993, 4028>>,
      <<4038, 4038>>, <<4141, 4144>>, <<4146, 4151>>,
      <<4153, 4154>>, <<4157, 4158>>, <<4184, 4185>>,
      <<4190, 4192>>, <<4209, 4212>>, <<4226, 4226>>,
      <<4229, 4230>>, <<4237, 4237>>, <<4253, 4253>>,
      <<4348, 4348>>, <<4957, 4959>>, <<5906, 5908>>,
      <<5938, 5939>>, <<5970, 5971>>, <<6002, 6003>>,
      <<6068, 6069>>, <<6071, 6077>>, <<6086, 6086>>,
      <<6089, 6099>>, <<6103, 6103>>, <<6109, 6109>>,
      <<6155, 6159>>, <<6211, 6211>>, <<6277, 6278>>,
      <<6313, 6313>>, <<6432, 6434>>, <<6439, 6440>>,
      <<6450, 6450>>, <<6457, 6459>>, <<6679, 6680>>,
      <<6683, 6683>>, <<6742, 6742>>, <<6744, 6750>>,
      <<6752, 6752>>, <<6754, 6754>>, <<6757, 6764>>,
      <<6771, 6780>>, <<6783, 6783>>, <<6823, 6823>>,
      <<6832, 6862>>, <<6912, 6915>>, <<6964, 6964>>,
      <<6966, 6970>>, <<6972, 6972>>, <<6978, 6978>>,
      <<7019, 7027>>, <<7040, 7041>>, <<7074, 7077>>,
      <<7080, 7081>>, <<7083, 7085>>, <<7142, 7142>>,
      <<7144, 7145>>, <<7149, 7149>>, <<7151, 7153>>,
      <<7212, 7219>>, <<7222, 7223>>, <<7288, 7293>>,
      <<7376, 7378>>, <<7380, 7392>>, <<7394, 7400>>,
      <<7405, 7405>>, <<7412, 7412>>, <<7416, 7417>>,
      <<7468, 7530>>, <<7544, 7544>>, <<7579, 7679>>,
      <<8125, 8125>>, <<8127, 8129>>, <<8141, 8143>>,
      <<8157, 8159>>, <<8173, 8175>>, <<8189, 8190>>,
      <<8203, 8207>>, <<8216, 8217>>, <<8228, 8228>>,
      <<8231, 8231>>, <<8234, 8238>>, <<8288, 8292>>,
      <<8294, 8303>>, <<8305, 8305>>, <<8319, 8319>>,
      <<8336, 8348>>, <<8400, 8432>>, <<11388, 11389>>,
      <<11503, 11505>>, <<11631, 11631>>, <<11647, 11647>>,
      <<11744, 11775>>, <<11823, 11823>>, <<12293, 12293>>,
      <<12330, 12333>>, <<12337, 12341>>, <<12347, 12347>>,
      <<12441, 12446>>, <<12540, 12542>>, <<40981, 40981>>,
      <<42232, 42237>>, <<42508, 42508>>, <<42607, 42610>>,
      <<42612, 42621>>, <<42623, 42623>>, <<42652, 42655>>,
      <<42736, 42737>>, <<42752, 42785>>, <<42864, 42864>>,
      <<42888, 42890>>, <<42994, 42996>>, <<43000, 43001>>,
      <<43010, 43010>>, <<43014, 43014>>, <<43019, 43019>>,
      <<43045, 43046>>, <<43052, 43052>>, <<43204, 43205>>,
      <<43232, 43249>>, <<43263, 43263>>, <<43302, 43309>>,
      <<43335, 43345>>, <<43392, 43394>>, <<43443, 43443>>,
      <<43446, 43449>>, <<43452, 43453>>, <<43471, 43471>>,
      <<43493, 43494>>, <<43561, 43566>>, <<43569, 43570>>,
      <<43573, 43574>>, <<43587, 43587>>, <<43596, 43596>>,
      <<43632, 43632>>, <<43644, 43644>>, <<43696, 43696>>,
      <<43698, 43700>>, <<43703, 43704>>, <<43710, 43711>>,
      <<43713, 43713>>, <<43741, 43741>>, <<43756, 43757>>,
      <<43763, 43764>>, <<43766, 43766>>, <<43867, 43871>>,
      <<43881, 43883>>, <<44005, 44005>>, <<44008, 44008>>,
      <<44013, 44013>>, <<64286, 64286>>, <<64434, 64450>>,
      <<65024, 65039>>, <<65043, 65043>>, <<65056, 65071>>,
      <<65106, 65106>>, <<65109, 65109>>, <<65279, 65279>>,
      <<65287, 65287>>, <<65294, 65294>>, <<65306, 65306>>,
      <<65342, 65342>>, <<65344, 65344>>, <<65392, 65392>>,
      <<65438, 65439>>, <<65507, 65507>>, <<65529, 65531>>,
      <<66045, 66045>>, <<66272, 66272>>, <<66422, 66426>>,
      <<67456, 67461>>, <<67463, 67504>>, <<67506, 67514>>,
      <<68097, 68099>>, <<68101, 68102>>, <<68108, 68111>>,
      <<68152, 68154>>, <<68159, 68159>>, <<68325, 68326>>,
      <<68900, 68903>>, <<69291, 69292>>, <<69373, 69375>>,
      <<69446, 69456>>, <<69506, 69509>>, <<69633, 69633>>,
      <<69688, 69702>>, <<69744, 69744>>, <<69747, 69748>>,
      <<69759, 69761>>, <<69811, 69814>>, <<69817, 69818>>,
      <<69821, 69821>>, <<69826, 69826>>, <<69837, 69837>>,
      <<69888, 69890>>, <<69927, 69931>>, <<69933, 69940>>,
      <<70003, 70003>>, <<70016, 70017>>, <<70070, 70078>>,
      <<70089, 70092>>, <<70095, 70095>>, <<70191, 70193>>,
      <<70196, 70196>>, <<70198, 70199>>, <<70206, 70206>>,
      <<70209, 70209>>, <<70367, 70367>>, <<70371, 70378>>,
      <<70400, 70401>>, <<70459, 70460>>, <<70464, 70464>>,
      <<70502, 70508>>, <<70512, 70516>>, <<70712, 70719>>,
      <<70722, 70724>>, <<70726, 70726>>, <<70750, 70750>>,
      <<70835, 70840>>, <<70842, 70842>>, <<70847, 70848>>,
      <<70850, 70851>>, <<71090, 71093>>, <<71100, 71101>>,
      <<71103, 71104>>, <<71132, 71133>>, <<71219, 71226>>,
      <<71229, 71229>>, <<71231, 71232>>, <<71339, 71339>>,
      <<71341, 71341>>, <<71344, 71349>>, <<71351, 71351>>,
      <<71453, 71455>>, <<71458, 71461>>, <<71463, 71467>>,
      <<71727, 71735>>, <<71737, 71738>>, <<71995, 71996>>,
      <<71998, 71998>>, <<72003, 72003>>, <<72148, 72151>>,
      <<72154, 72155>>, <<72160, 72160>>, <<72193, 72202>>,
      <<72243, 72248>>, <<72251, 72254>>, <<72263, 72263>>,
      <<72273, 72278>>, <<72281, 72283>>, <<72330, 72342>>,
      <<72344, 72345>>, <<72752, 72758>>, <<72760, 72765>>,
      <<72767, 72767>>, <<72850, 72871>>, <<72874, 72880>>,
      <<72882, 72883>>, <<72885, 72886>>, <<73009, 73014>>,
      <<73018, 73018>>, <<73020, 73021>>, <<73023, 73029>>,
      <<73031, 73031>>, <<73104, 73105>>, <<73109, 73109>>,
      <<73111, 73111>>, <<73459, 73460>>, <<73472, 73473>>,
      <<73526, 73530>>, <<73536, 73536>>, <<73538, 73538>>,
      <<78896, 78912>>, <<78919, 78933>>, <<92912, 92916>>,
      <<92976, 92982>>, <<92992, 92995>>, <<94031, 94031>>,
      <<94095, 94111>>, <<94176, 94177>>, <<94179, 94180>>,
      <<110576, 110579>>, <<110581, 110587>>, <<110589, 110590>>,
      <<113821, 113822>>, <<113824, 113827>>, <<118528, 118573>>,
      <<118576, 118598>>, <<119143, 119145>>, <<119155, 119170>>,
      <<119173, 119179>>, <<119210, 119213>>, <<119362, 119364>>,
      <<121344, 121398>>, <<121403, 121452>>, <<121461, 121461>>,
      <<121476, 121476>>, <<121499, 121503>>, <<121505, 121519>>,
      <<122880, 122886>>, <<122888, 122904>>, <<122907, 122913>>,
      <<122915, 122916>>, <<122918, 122922>>, <<122928, 122989>>,
      <<123023, 123023>>, <<123184, 123197>>, <<123566, 123566>>,
      <<123628, 123631>>, <<124139, 124143>>, <<125136, 125142>>,
      <<125252, 125259>>, <<127995, 127999>>, <<917505, 917505>>,
      <<917536, 917631>>, <<917760, 917999>>>>

InRanges(cp, ranges) ==
    \E k \in 1..Len(ranges) : cp >= ranges[k][1] /\ cp <= ranges[k][2]

IsCaseIgnorable(cp) == InRanges(cp, CaseIgnorableRanges)

\* asked of code points that are not Case_Ignorable
IsCased(cp) == InRanges(cp, CasedRanges)

\* the lowercase of one code point; that of U+0130 is two code points
ToLowerFull(cp) ==
    IF cp < 128 THEN <<IF cp >= 65 /\ cp <= 90 THEN cp + 32 ELSE cp>>
    ELSE IF cp = 304 THEN <<105, 775>>
    ELSE LET hits == {k \in 1..Len(LowerRanges) :
                         /\ cp >= LowerRanges[k][1]
                         /\ cp <= LowerRanges[k][2]
                         /\ (cp - LowerRanges[k][1]) % LowerRanges[k][3] = 0}
         IN IF hits = {} THEN <<cp>>
            ELSE <<cp + LowerRanges[CHOOSE k \in hits : TRUE][4]>>

\* the capital sigma at position i ends a word: the nearest code point
\* before it that is not Case_Ignorable is Cased, and the nearest one after
\* it, if any, is not
IsFinalSigma(text, i) ==
    LET before == {j \in 1..(i - 1) : ~IsCaseIgnorable(text[j])}
        after == {j \in (i + 1)..Len(text) : ~IsCaseIgnorable(text[j])}
    IN /\ before # {}
       /\ IsCased(text[CHOOSE j \in before : \A k \in before : k <= j])
       /\ \/ after = {}
          \/ ~IsCased(text[CHOOSE j \in after : \A k \in after : j <= k])

RECURSIVE LowerFrom(_, _)
\* the lowercase of text from its i-th code point on
LowerFrom(text, i) ==
    IF i > Len(text) THEN <<>>
    ELSE (IF text[i] = 931
          THEN <<IF IsFinalSigma(text, i) THEN 962 ELSE 963>>
          ELSE ToLowerFull(text[i])) \o LowerFrom(text, i + 1)

\* str.lower()
Lower(text) == LowerFrom(text, 1)

\* sub in text
Contains(text, sub) ==
    \E i \in 0..(Len(text) - Len(sub)) : SubSeq(text, i + 1, i + Len(sub)) = sub

\* 'break' in entry.task.lower()
IsBreakEntry(entry) ==
    Contains(Lower(entry.task), <<98, 114, 101, 97, 107>>)

SeqsUpTo(S, n) == UNION {[1..k -> S] : k \in 0..n}

\* class FullPlan
FullPlan(n) ==
    [plan : SeqsUpTo(StudyDay, n),
     total_study_days : TotalDaysValues,
     total_hours : TotalHoursValues]

\* class TopicList, by its course_name and total_pages
TopicList == [course_name : {"Course X", "Course Y"}, total_pages : {100}]

\* A value of a JSON answer, <<type, value>>, with the type it is written
\* in: a number without fraction or exponent (int), a number with one
\* (float, in tenths), a string (its code points), true or false, null
JsonInt(n) == <<"int", n>>
JsonFloat(tenths) == <<"float", tenths>>
JsonStr(text) == <<"str", text>>
JsonBool(b) == <<"bool", b>>
JsonNull == <<"null">>
JsonType(x) == x[1]
JsonValue(x) == x[2]

\* A StudyDay / FullPlan / TopicList answer whose numbers are written as
\* JSON strings ("day": "2", "estimated_hours": "5.5")
QuoteStudyDay(e) ==
    [day |-> JsonStr(IntText(e.day)), task |-> JsonStr(e.task),
     estimated_hours |-> JsonStr(HoursText(e.estimated_hours))]
QuoteFullPlan(v) ==
    [plan |-> [i \in 1..Len(v.plan) |-> QuoteStudyDay(v.plan[i])],
     total_study_days |-> JsonStr(IntText(v.total_study_days)),
     total_hours |-> JsonStr(HoursText(v.total_hours))]
QuoteTopicList(v) ==
    [course_name |-> JsonStr(v.course_name),
     total_pages |-> JsonStr(IntText(v.total_pages))]

\* the same numbers written with a blank, a sign, a decimal part of zeros:
\* ' +2.0' for 2, '+5.50 ' for 5.5
LooseIntText(n) ==
    <<32>> \o (IF n >= 0 THEN <<43>> ELSE <<>>) \o IntText(n) \o <<46, 48>>
LooseHoursText(tenths) ==
    (IF tenths >= 0 THEN <<43>> ELSE <<>>) \o HoursText(tenths) \o <<48, 32>>
LooseStudyDay(e) ==
    [day |-> JsonStr(LooseIntText(e.day)), task |-> JsonStr(e.task),
     estimated_hours |-> JsonStr(LooseHoursText(e.estimated_hours))]
LooseFullPlan(v) ==
    [plan |-> [i \in 1..Len(v.plan) |-> LooseStudyDay(v.plan[i])],
     total_study_days |-> JsonStr(LooseIntText(v.total_study_days)),
     total_hours |-> JsonStr(LooseHoursText(v.total_hours))]
LooseTopicList(v) ==
    [course_name |-> JsonStr(v.course_name),
     total_pages |-> JsonStr(LooseIntText(v.total_pages))]

\* the numbers written in the other number type: 2.0 for the int 2, 4 for
\* the float 4.0 (5.5 stays 5.5)
WholeInt(n) == JsonFloat(10 * n)
WholeFloat(tenths) ==
    IF tenths % 10 = 0 THEN JsonInt(tenths \div 10) ELSE JsonFloat(tenths)
WholeStudyDay(e) ==
    [day |-> WholeInt(e.day), task |-> JsonStr(e.task),
     estimated_hours |-> WholeFloat(e.estimated_hours)]
WholeFullPlan(v) ==
    [plan |-> [i \in 1..Len(v.plan) |-> WholeStudyDay(v.plan[i])],
     total_study_days |-> WholeInt(v.total_study_days),
     total_hours |-> WholeFloat(v.total_hours)]
WholeTopicList(v) ==
    [course_name |-> JsonStr(v.course_name),
     total_pages |-> WholeInt(v.total_pages)]

\* the numbers 1 and 0 written as true and false, the others as they are
BoolInt(n) == IF n \in {0, 1} THEN JsonBool(n = 1) ELSE JsonInt(n)
BoolFloat(tenths) ==
    IF tenths \in {0, 10} THEN JsonBool(tenths = 10) ELSE JsonFloat(tenths)
BoolStudyDay(e) ==
    [day |-> BoolInt(e.day), task |-> JsonStr(e.task),
     estimated_hours |-> BoolFloat(e.estimated_hours)]
BoolFullPlan(v) ==
    [plan |-> [i \in 1..Len(v.plan) |-> BoolStudyDay(v.plan[i])],
     total_study_days |-> BoolInt(v.total_study_days),
     total_hours |-> BoolFloat(v.total_hours)]

\* answers with a value no conversion reads: 'abc' or null where a number
\* is due, a float with a fraction where an int is due (0.5 more than the
\* value), a number where a string is due
SpoilFullPlan(v) ==
    [QuoteFullPlan(v) EXCEPT !.total_hours = JsonStr(NotANumber)]
NullFullPlan(v) == [WholeFullPlan(v) EXCEPT !.total_hours = JsonNull]
FractionFullPlan(v) ==
    [WholeFullPlan(v) EXCEPT
        !.total_study_days = JsonFloat(10 * v.total_study_days + 5)]
NumberTaskFullPlan(v) ==
    [BoolFullPlan(v) EXCEPT
        !.plan = [i \in 1..Len(v.plan) |-> [@[i] EXCEPT !.task = JsonInt(i)]]]
SpoilTopicList(v) ==
    [QuoteTopicList(v) EXCEPT !.total_pages = JsonStr(NotANumber)]
NullTopicList(v) == [WholeTopicList(v) EXCEPT !.total_pages = JsonNull]
FractionTopicList(v) ==
    [WholeTopicList(v) EXCEPT
        !.total_pages = JsonFloat(10 * v.total_pages + 5)]
NumberNameTopicList(v) ==
    [WholeTopicList(v) EXCEPT !.course_name = JsonInt(v.total_pages)]

\* the typed forms of a FullPlan / TopicList answer: those a conversion
\* reads, and those none does
FullPlanForms(v) ==
    {QuoteFullPlan(v), LooseFullPlan(v), WholeFullPlan(v), BoolFullPlan(v)}
SpoiledFullPlanForms(v) ==
    {SpoilFullPlan(v), NullFullPlan(v), FractionFullPlan(v),
     NumberTaskFullPlan(v)}
TopicListForms(v) ==
    {QuoteTopicList(v), LooseTopicList(v), WholeTopicList(v)}
SpoiledTopicListForms(v) ==
    {SpoilTopicList(v), NullTopicList(v), FractionTopicList(v),
     NumberNameTopicList(v)}

\* an answer that leaves a required field out
Malformed == {[kind |-> "missing_field"]}

\* The forms in which a model can answer v where a schema is requested: the
\* value itself, every field of its type; the value with fields written in
\* another JSON type (the forms of `typed`); or JSON with a required field
\* missing.
RawOf(v, typed) ==
    {[kind |-> "wellformed", value |-> v]}
        \cup {[kind |-> "typed", value |-> q] : q \in typed}
        \cup Malformed

\* an int field in lax mode: an int; true and false as 1 and 0; a float
\* without a fractional part; a string str_as_int reads
ValidateInt(x) ==
    IF JsonType(x) = "int" THEN Some(JsonValue(x))
    ELSE IF JsonType(x) = "bool" THEN Some(IF JsonValue(x) THEN 1 ELSE 0)
    ELSE IF JsonType(x) = "float"
    THEN (IF JsonValue(x) % 10 = 0 THEN Some(JsonValue(x) \div 10)
          ELSE None)
    ELSE IF JsonType(x) = "str" THEN StrAsInt(JsonValue(x))
    ELSE None

\* a float field in lax mode (tenths): a float; an int; true and false as
\* 1.0 and 0.0; a string str_as_float reads
ValidateFloat(x) ==
    IF JsonType(x) = "float" THEN Some(JsonValue(x))
    ELSE IF JsonType(x) = "int" THEN Some(10 * JsonValue(x))
    ELSE IF JsonType(x) = "bool" THEN Some(IF JsonValue(x) THEN 10 ELSE 0)
    ELSE IF JsonType(x) = "str"
    THEN (IF IsFloatText(JsonValue(x)) THEN Some(ToTenths(JsonValue(x)))
          ELSE None)
    ELSE None

\* a str field: a string and nothing else
ValidateStr(x) == IF JsonType(x) = "str" THEN Some(JsonValue(x)) ELSE None

\* the fields of a typed FullPlan answer as the schema reads them, None for
\* a field it refuses: the ints (the entries' day, then total_study_days),
\* the floats (the entries' estimated_hours, then total_hours) and the
\* strs (the entries' task)
ReadFullPlan(q) ==
    [ints |-> [i \in 1..(Len(q.plan) + 1) |->
                  ValidateInt(IF i <= Len(q.plan) THEN q.plan[i].day
                              ELSE q.total_study_days)],
     floats |-> [i \in 1..(Len(q.plan) + 1) |->
                    ValidateFloat(IF i <= Len(q.plan)
                                  THEN q.plan[i].estimated_hours
                                  ELSE q.total_hours)],
     strs |-> [i \in 1..Len(q.plan) |-> ValidateStr(q.plan[i].task)]]

\* no field was refused
AllRead(fields) ==
    /\ \A i \in 1..Len(fields.ints) : fields.ints[i] # None
    /\ \A i \in 1..Len(fields.floats) : fields.floats[i] # None
    /\ \A i \in 1..Len(fields.strs) : fields.strs[i] # None

\* the FullPlan of the fields read
FullPlanOf(fields) ==
    [plan |-> [i \in 1..Len(fields.strs) |->
                  [day |-> Get(fields.ints[i]),
                   task |-> Get(fields.strs[i]),
                   estimated_hours |-> Get(fields.floats[i])]],
     total_study_days |-> Get(fields.ints[Len(fields.ints)]),
     total_hours |-> Get(fields.floats[Len(fields.floats)])]

\* every field of a typed answer is of its type or converts to it / the
\* answer with every field converted
FullPlanConvertible(q) == AllRead(ReadFullPlan(q))
ConvertFullPlan(q) == FullPlanOf(ReadFullPlan(q))

\* the same of a typed TopicList answer
ReadTopicList(q) ==
    [course_name |-> ValidateStr(q.course_name),
     total_pages |-> ValidateInt(q.total_pages)]
TopicListConvertible(q) ==
    ReadTopicList(q).course_name # None /\ ReadTopicList(q).total_pages # None
ConvertTopicList(q) ==
    [course_name |-> Get(ReadTopicList(q).course_name),
     total_pages |-> Get(ReadTopicList(q).total_pages)]

\* the verdict on an answer whose fields were read
Validated(raw, ok, value) ==
    IF ok THEN [ok |-> TRUE, value |-> value]
    ELSE [ok |-> FALSE, value |-> raw]

RECURSIVE SumHours(_)
\* sum of the entries' estimated_hours
SumHours(plan) ==
    IF plan = <<>> THEN 0
    ELSE Head(plan).estimated_hours + SumHours(Tail(plan))

\* Some 7 consecutive day values within the plan's days (from its least to
\* its greatest) hold no entry of 0 hours. Such a window, moved down as far
\* as it goes, starts at the plan's least day or right after a day of 0
\* hours.
LacksBreak(plan) ==
    LET days == {plan[i].day : i \in 1..Len(plan)}
        breaks == {plan[i].day : i \in {j \in 1..Len(plan) :
                                           plan[j].estimated_hours = 0}}
        first == CHOOSE d \in days : \A e \in days : d <= e
        last == CHOOSE d \in days : \A e \in days : e <= d
    IN /\ plan # <<>>
       /\ \E window_start \in {first} \cup {b + 1 : b \in breaks} :
              /\ window_start + 6 <= last
              /\ \A b \in breaks : b < window_start \/ b > window_start + 6

\* a validation in strict mode: every field of its own type
ValidateFullPlan_Strict(raw) ==
    IF raw.kind = "wellformed"
    THEN [ok |-> TRUE, value |-> raw.value]
    ELSE [ok |-> FALSE, value |-> raw]

\* the verdict on a typed FullPlan answer from its fields as read
ValidatedFullPlan(raw, fields) ==
    Validated(raw, AllRead(fields), FullPlanOf(fields))

\* output_schema validation (pydantic, lax mode): required fields present,
\* every field of its type or convertible to it; the schema declares no
\* bounds on any field and no validator.
\* FullPlan(**session.state['raw_schedule'])
ValidateFullPlan(raw) ==
    IF raw.kind = "wellformed"
    THEN [ok |-> TRUE, value |-> raw.value]
    ELSE IF raw.kind = "typed"
    THEN ValidatedFullPlan(raw, ReadFullPlan(raw.value))
    ELSE [ok |-> FALSE, value |-> raw]

\* TopicList(**session.state['topics'])
ValidateTopicList(raw) ==
    IF raw.kind = "wellformed"
    THEN [ok |-> TRUE, value |-> raw.value]
    ELSE IF raw.kind = "typed"
    THEN Validated(raw, TopicListConvertible(raw.value),
                   ConvertTopicList(raw.value))
    ELSE [ok |-> FALSE, value |-> raw]

----------------------------------------------------------------------------
(* Text, UTF-8 and the timestamp                                           *)

\* the texts of the calls made on their own: 'A', the euro sign, a lone
\* surrogate
SampleTexts == {<<65>>, <<8364>>, <<55296>>}

\* the texts the formatter model gives save_study_plan: '', e-acute, 'A'
\* followed by the euro sign, an emoji, a lone surrogate
MarkdownTexts == {<<>>, <<233>>, <<65, 8364>>, <<128512>>, <<55296>>}

IsSurrogate(cp) == cp >= 55296 /\ cp <= 57343

\* an encoder that writes every code point below 256 as one byte
EncodeCodePoint_OneByteBelow256(cp) ==
    IF cp < 256 THEN <<cp>>
    ELSE IF cp < 2048 THEN <<192 + (cp \div 64), 128 + (cp % 64)>>
    ELSE IF cp < 65536
         THEN <<224 + (cp \div 4096), 128 + ((cp \div 64) % 64), 128 + (cp % 64)>>
    ELSE <<240 + (cp \div 262144), 128 + ((cp \div 4096) % 64),
           128 + ((cp \div 64) % 64), 128 + (cp % 64)>>

\* str.encode('utf-8') of one code point
EncodeCodePoint(cp) ==
    IF cp < 128 THEN <<cp>>
    ELSE IF cp < 2048 THEN <<192 + (cp \div 64), 128 + (cp % 64)>>
    ELSE IF cp < 65536
         THEN <<224 + (cp \div 4096), 128 + ((cp \div 64) % 64), 128 + (cp % 64)>>
    ELSE <<240 + (cp \div 262144), 128 + ((cp \div 4096) % 64),
           128 + ((cp \div 64) % 64), 128 + (cp % 64)>>

RECURSIVE EncodeUtf8(_)
EncodeUtf8(text) ==
    IF text = <<>> THEN <<>>
    ELSE EncodeCodePoint(Head(text)) \o EncodeUtf8(Tail(text))

\* str.encode raises UnicodeEncodeError on a lone surrogate
EncodeRaises(text) == \E i \in 1..Len(text) : IsSurrogate(text[i])

DigitChars == <<"0", "1", "2", "3", "4", "5", "6", "7", "8", "9">>
Digit(n) == DigitChars[n + 1]
Pad2(n) == <<Digit((n \div 10) % 10), Digit(n % 10)>>
Pad4(n) == <<Digit((n \div 1000) % 10), Digit((n \div 100) % 10),
             Digit((n \div 10) % 10), Digit(n % 10)>>

\* The clock counts seconds from 1 January of EpochDate's year, 00:00:00 UTC.
EpochDate == <<2026, 1, 1>>
MonthLengths == <<31, 28, 31, 30, 31, 30, 31, 31, 30, 31, 30, 31>>
SecondsPerDay == 24 * 60 * 60

\* The process starts on 25 October 2026 at 00:59:59 UTC, the last second of
\* summer time in the zone Europe/London.
StartClock == 297 * SecondsPerDay + 60 * 60 - 1

IsLeapYear(y) == (y % 4 = 0 /\ y % 100 # 0) \/ y % 400 = 0
DaysInYear(y) == IF IsLeapYear(y) THEN 366 ELSE 365
MonthLength(y, m) == IF m = 2 /\ IsLeapYear(y) THEN 29 ELSE MonthLengths[m]

RECURSIVE YearDayOf(_, _)
\* the day of the year (from 0) of the first of month m of year y
YearDayOf(y, m) ==
    IF m = 1 THEN 0 ELSE YearDayOf(y, m - 1) + MonthLength(y, m - 1)

RECURSIVE YearDay(_, _)
\* <<year, day of the year (from 0)>> of the d-th day (from 0) counted from
\* 1 January of year y
YearDay(d, y) ==
    IF d < DaysInYear(y) THEN <<y, d>> ELSE YearDay(d - DaysInYear(y), y + 1)

RECURSIVE MonthDay(_, _, _)
\* <<month, day of month>> of the d-th day (from 0) counted from the first
\* of month m of year y
MonthDay(d, m, y) ==
    IF d < MonthLength(y, m) THEN <<m, d + 1>>
    ELSE MonthDay(d - MonthLength(y, m), m + 1, y)

\* <<year, month, day of month>> of the d-th day (from 0) of the clock
Date(d) ==
    LET yd == YearDay(d, EpochDate[1])
        md == MonthDay(yd[2], 1, yd[1])
    IN <<yd[1], md[1], md[2]>>

\* datetime.now().strftime("%Y%m%d_%H%M%S")
Strftime(t) ==
    LET d == t \div SecondsPerDay
        s == t % SecondsPerDay
        ymd == Date(d)
    IN Pad4(ymd[1]) \o Pad2(ymd[2]) \o Pad2(ymd[3]) \o <<"_">>
       \o Pad2(s \div 3600) \o Pad2((s \div 60) % 60) \o Pad2(s % 60)

WeekdayNames ==
    <<<<"T", "h", "u">>, <<"F", "r", "i">>, <<"S", "a", "t">>,
      <<"S", "u", "n">>, <<"M", "o", "n">>, <<"T", "u", "e">>,
      <<"W", "e", "d">>>>
MonthNames ==
    <<<<"J", "a", "n">>, <<"F", "e", "b">>, <<"M", "a", "r">>,
      <<"A", "p", "r">>, <<"M", "a", "y">>, <<"J", "u", "n">>,
      <<"J", "u", "l">>, <<"A", "u", "g">>, <<"S", "e", "p">>,
      <<"O", "c", "t">>, <<"N", "o", "v">>, <<"D", "e", "c">>>>

\* strftime("%a, %d %b %Y %H:%M:%S +0000", gmtime()) at second t; 1 January
\* of EpochDate's year is a Thursday
GmtimeText(t) ==
    LET d == t \div SecondsPerDay
        s == t % SecondsPerDay
        ymd == Date(d)
    IN WeekdayNames[(d % 7) + 1] \o <<",", " ">> \o Pad2(ymd[3]) \o <<" ">>
       \o MonthNames[ymd[2]] \o <<" ">> \o Pad4(ymd[1])
       \o <<" ">> \o Pad2(s \div 3600) \o <<":">> \o Pad2((s \div 60) % 60)
       \o <<":">> \o Pad2(s % 60) \o <<" ", "+", "0", "0", "0", "0">>

\* The second at which the module is loaded and the agents are constructed:
\* the first second of the model.
LoadTime == StartClock

\* the time in formatter.instruction, an f-string evaluated once when the
\* module is loaded
InstructionTime == GmtimeText(LoadTime)

FilenamePrefix == <<"s", "t", "u", "d", "y", "_", "p", "l", "a", "n", "_">>
FilenameSuffix == <<".", "m", "d">>

\* the seconds the clock can show: the first ones, and the first an hour on
ClockValues ==
    {StartClock + k : k \in 0..MaxTicks} \cup {StartClock + 60 * 60}

\* the time zones the process can run in
Zones == {"UTC", "Europe/London"}

RECURSIVE DaysBefore(_)
\* the days of the clock before 1 January of year y
DaysBefore(y) ==
    IF y <= EpochDate[1] THEN 0 ELSE DaysBefore(y - 1) + DaysInYear(y - 1)

\* the day of the clock of the last Sunday of month m of year y; day 0 of
\* the clock is a Thursday, so the Sundays are the days d with d % 7 = 3
LastSunday(y, m) ==
    LET first == DaysBefore(y) + YearDayOf(y, m)
        last == first + MonthLength(y, m) - 1
    IN last - ((last + 4) % 7)

\* British Summer Time of year y: from the last Sunday of March, 01:00 UTC,
\* to the last Sunday of October, 01:00 UTC
SummerTimeStart(y) == LastSunday(y, 3) * SecondsPerDay + 60 * 60
SummerTimeEnd(y) == LastSunday(y, 10) * SecondsPerDay + 60 * 60

\* the seconds local time is ahead of UTC in the zone at second t
UtcOffset(zone, t) ==
    LET y == Date(t \div SecondsPerDay)[1]
    IN IF zone = "Europe/London" /\ t >= SummerTimeStart(y)
              /\ t < SummerTimeEnd(y)
       THEN 60 * 60
       ELSE 0

\* the local time of the zone at second t
LocalTime(zone, t) == t + UtcOffset(zone, t)

\* datetime.now(): the local time of the process, without its zone
Now == LocalTime(tz, clock)

\* a file name that leaves the timestamp out
Filename_NoTimestamp(t) == FilenamePrefix \o FilenameSuffix

\* f"study_plan_{timestamp}.md"
Filename(t) == FilenamePrefix \o Strftime(t) \o FilenameSuffix

----------------------------------------------------------------------------
(* The markdown table the formatter is asked for                           *)

\* "# Study Schedule"
Heading ==
    <<35, 32, 83, 116, 117, 100, 121, 32, 83, 99, 104, 101, 100, 117, 108, 101>>

\* "| Day | Date | Course | Chapter | Task | Hours |"
HeaderRow ==
    <<124, 32, 68, 97, 121, 32, 124, 32, 68, 97, 116, 101, 32, 124, 32, 67,
      111, 117, 114, 115, 101, 32, 124, 32, 67, 104, 97, 112, 116, 101, 114,
      32, 124, 32, 84, 97, 115, 107, 32, 124, 32, 72, 111, 117, 114, 115, 32,
      124>>

\* "|-----|------|--------|---------|------|-------|"
SeparatorRow ==
    <<124, 45, 45, 45, 45, 45, 124, 45, 45, 45, 45, 45, 45, 124, 45, 45, 45,
      45, 45, 45, 45, 45, 124, 45, 45, 45, 45, 45, 45, 45, 45, 45, 124, 45,
      45, 45, 45, 45, 45, 124, 45, 45, 45, 45, 45, 45, 45, 124>>

\* the example of the formatter's instruction without its data rows
HeaderOnlyTable ==
    Heading \o <<10, 10>> \o HeaderRow \o <<10>> \o SeparatorRow \o <<10>>

\* What the formatter model can give as its final response: any text; here
\* '', 'A' and the table of its instruction.
FinalTexts == {<<>>, <<65>>, HeaderOnlyTable}

\* final_event.content.parts[0].text of the last event of the run: a text
\* (Some), or None when the first part of the event carries no text (a
\* function call, a function response, inline data)
FinalResponses == {None} \cup {Some(text) : text \in FinalTexts}

\* text.strip(' ')
RECURSIVE Strip(_)
Strip(text) ==
    IF text = <<>> THEN <<>>
    ELSE IF Head(text) = 32 THEN Strip(Tail(text))
    ELSE IF text[Len(text)] = 32 THEN Strip(SubSeq(text, 1, Len(text) - 1))
    ELSE text

\* the cells of a table row "| a | b |", stripped; <<>> when the line is
\* not delimited by bars
Cells(line) ==
    LET parts == Split(line, 124)
    IN IF Len(parts) < 3 \/ parts[1] # <<>> \/ parts[Len(parts)] # <<>>
       THEN <<>>
       ELSE [i \in 1..(Len(parts) - 2) |-> Strip(parts[i + 1])]

IsSeparatorRow(line) ==
    LET cells == Cells(line)
    IN /\ Len(cells) = 6
       /\ \A i \in 1..6 :
              cells[i] # <<>> /\ \A j \in 1..Len(cells[i]) : cells[i][j] = 45

\* the row of one StudyDay: six cells, the day first, then the date, the
\* course and the chapter (a date or '-', a name or '-' in the example of
\* the instruction), the task fifth, the hours with one decimal last
IsRowOf(line, entry) ==
    LET cells == Cells(line)
    IN /\ Len(cells) = 6
       /\ cells[1] = IntText(entry.day)
       /\ cells[5] = entry.task
       /\ cells[6] = HoursText(entry.estimated_hours)

\* text is the table of plan: heading, blank line, header row, separator
\* row, then one row per entry in plan order and nothing else
IsRenderingOf(text, plan) ==
    LET lines == Split(text, 10)
        n == Len(plan)
    IN /\ Len(lines) = n + 5
       /\ lines[1] = Heading
       /\ lines[2] = <<>>
       /\ lines[3] = HeaderRow
       /\ IsSeparatorRow(lines[4])
       /\ \A i \in 1..n : IsRowOf(lines[4 + i], plan[i])
       /\ lines[n + 5] = <<>>

----------------------------------------------------------------------------
(* save_study_plan                                                         *)

\* What awaiting tool_context.save_artifact can do: return a version, raise
\* an Exception, or raise a BaseException that is no Exception (the task is
\* cancelled while the save is awaited: asyncio.CancelledError).
AdapterOutcomes == {"ok", "Exception", "CancelledError"}

\* the outcomes `except Exception` catches
CaughtOutcomes == {"Exception"}

\* f"✓ Study plan saved as '{filename}' (version {version}). ..."
SavedMessage(filename, version) ==
    [kind |-> "saved", filename |-> filename, version |-> version]

\* f"Error saving file: {str(e)}. However, the study plan is shown above."
ErrorMessage(e) == [kind |-> "error", error |-> e]

\* The version the artifact store gives a new artifact of this name.
NextVersion(store, filename) ==
    Cardinality({i \in 1..Len(store) : store[i].filename = filename})

\* The arguments of tool_context.save_artifact
SaveArtifactCall(filename, markdown_content) ==
    [filename |-> filename,
     data |-> EncodeUtf8(markdown_content),
     mime_type |-> "text/markdown",
     custom_metadata |-> [type |-> "study_schedule", format |-> "markdown"]]

\* save_study_plan(markdown_content, tool_context) at time now, up to its
\* await: the file name from the clock, the bytes, and the save_artifact
\* call it issues; when the text cannot be encoded no call is issued and it
\* returns the error message at once.
SaveStudyPlanCall(markdown_content, now) ==
    IF EncodeRaises(markdown_content)
    THEN [call |-> None, message |-> Some(ErrorMessage("UnicodeEncodeError"))]
    ELSE [call |-> Some(SaveArtifactCall(Filename(now), markdown_content)),
          message |-> None]

\* save_study_plan from the moment the awaited save_artifact(call) returns
\* or raises, on the artifact store as it is then: whether save_study_plan
\* returns or raises, the string it returns, and the store afterwards.
SaveStudyPlanReturn(call, store, adapter) ==
    IF adapter = "ok"
    THEN LET version == NextVersion(store, call.filename)
         IN [raises |-> FALSE,
             message |-> Some(SavedMessage(call.filename, version)),
             store |-> Append(store, [filename |-> call.filename,
                                      version |-> version,
                                      artifact |-> call])]
    ELSE IF adapter \in CaughtOutcomes
    THEN [raises |-> FALSE, message |-> Some(ErrorMessage(adapter)),
          store |-> store]
    ELSE [raises |-> TRUE, message |-> None, store |-> store]

\* the one-character strings of a file name and their code points
NameChars == <<"_", ".", "a", "d", "l", "m", "n", "p", "s", "t", "u", "y">>
NameCodes == <<95, 46, 97, 100, 108, 109, 110, 112, 115, 116, 117, 121>>
CodePoint(c) ==
    IF \E i \in 1..10 : DigitChars[i] = c
    THEN 47 + (CHOOSE i \in 1..10 : DigitChars[i] = c)
    ELSE NameCodes[CHOOSE i \in 1..Len(NameChars) : NameChars[i] = c]
CodePoints(name) == [i \in 1..Len(name) |-> CodePoint(name[i])]

\* a hexadecimal digit, lower case
HexDigit(n) == IF n < 10 THEN 48 + n ELSE 87 + n

\* str(e) of the UnicodeEncodeError of text.encode('utf-8'): the first run
\* of surrogates with its positions (from 0)
EncodeErrorText(text) ==
    LET surrogates == {i \in 1..Len(text) : IsSurrogate(text[i])}
        start == CHOOSE i \in surrogates : \A j \in surrogates : i <= j
        end == CHOOSE k \in start..Len(text) :
                   /\ \A j \in start..k : IsSurrogate(text[j])
                   /\ k = Len(text) \/ ~IsSurrogate(text[k + 1])
        cp == text[start]
    IN <<39, 117, 116, 102, 45, 56, 39, 32, 99, 111, 100, 101, 99, 32, 99,
         97, 110, 39, 116, 32, 101, 110, 99, 111, 100, 101, 32>>
       \o (IF end = start
           THEN <<99, 104, 97, 114, 97, 99, 116, 101, 114, 32, 39, 92, 117>>
                \o <<HexDigit(cp \div 4096), HexDigit((cp \div 256) % 16),
                     HexDigit((cp \div 16) % 16), HexDigit(cp % 16)>>
                \o <<39, 32, 105, 110, 32, 112, 111, 115, 105, 116, 105,
                      111, 110, 32>> \o NatText(start - 1)
           ELSE <<99, 104, 97, 114, 97, 99, 116, 101, 114, 115, 32, 105, 110,
                  32, 112, 111, 115, 105, 116, 105, 111, 110, 32>>
                \o NatText(start - 1) \o <<45>> \o NatText(end - 1))
       \o <<58, 32, 115, 117, 114, 114, 111, 103, 97, 116, 101, 115, 32, 110,
            111, 116, 32, 97, 108, 108, 111, 119, 101, 100>>

\* str(e) of an exception raised by the artifact store: 'save failed'
StoreErrorText ==
    <<115, 97, 118, 101, 32, 102, 97, 105, 108, 101, 100>>

\* str(e) of the exception save_study_plan caught
ErrorText(e, markdown_content) ==
    IF e = "UnicodeEncodeError" THEN EncodeErrorText(markdown_content)
    ELSE StoreErrorText

\* The string save_study_plan returned, as code points:
\* f"✓ Study plan saved as '{filename}' (version {version}). You can
\* download it from the web interface." or f"Error saving file: {str(e)}.
\* However, the study plan is shown above."
MessageText(message, markdown_content) ==
    IF message.kind = "saved"
    THEN <<10003, 32, 83, 116, 117, 100, 121, 32, 112, 108, 97, 110, 32, 115,
           97, 118, 101, 100, 32, 97, 115, 32, 39>>
         \o CodePoints(message.filename)
         \o <<39, 32, 40, 118, 101, 114, 115, 105, 111, 110, 32>> \o IntText(message.version)
         \o <<41, 46, 32, 89, 111, 117, 32, 99, 97, 110, 32, 100, 111, 119,
              110, 108, 111, 97, 100, 32, 105, 116, 32, 102, 114, 111, 109,
              32, 116, 104, 101, 32, 119, 101, 98, 32, 105, 110, 116, 101,
              114, 102, 97, 99, 101, 46>>
    ELSE <<69, 114, 114, 111, 114, 32, 115, 97, 118, 105, 110, 103, 32, 102,
           105, 108, 101, 58, 32>>
         \o ErrorText(message.error, markdown_content)
         \o <<46, 32, 72, 111, 119, 101, 118, 101, 114, 44, 32, 116, 104,
              101, 32, 115, 116, 117, 100, 121, 32, 112, 108, 97, 110, 32,
              105, 115, 32, 115, 104, 111, 119, 110, 32, 97, 98, 111, 118,
              101, 46>>

\* What the formatter model can give as its final response once the tool
\* has returned `result` (None: no tool call was made) for
\* markdown_content: any text, among them the string the tool returned.
ResponsesAfter(result, markdown_content) ==
    FinalResponses
        \cup (IF result = None THEN {}
              ELSE {Some(MessageText(Get(result), Get(markdown_content)))})

----------------------------------------------------------------------------
(* The pipeline                                                            *)

EmptyState == [topics |-> None, raw_schedule |-> None]

\* study_pipeline.sub_agents, by agent name
SubAgents == <<"ExtractorAgent", "SchedulerAgent", "FormatterAgent">>

Init ==
    /\ pc = "idle"
    /\ sid = NoSession
    /\ state = [s \in Sessions |-> EmptyState]
    /\ trace = <<>>
    /\ schedulerRead = None
    /\ formatterRead = None
    /\ generated = None
    /\ fmt = "idle"
    /\ pending = None
    /\ clock = StartClock
    /\ tz \in Zones
    /\ saveCall = None
    /\ artifacts = <<>>
    /\ toolResult = None
    /\ nSaves = 0
    /\ finalText = None
    /\ promptTime = None
    /\ inFlight = <<>>

\* runner.run(new_message, user_id, session_id) on a new session
StartRun(s) ==
    /\ pc = "idle"
    /\ pc' = "extractor"
    /\ sid' = s
    /\ UNCHANGED <<tz, inFlight, promptTime, state, trace, schedulerRead, formatterRead, generated, fmt,
                   pending, clock, saveCall, artifacts, toolResult, nSaves,
                   finalText>>

\* extractor: output_schema=TopicList, output_key="topics"
ExtractorRun ==
    /\ pc = "extractor"
    /\ trace' = Append(trace, SubAgents[1])
    /\ \E v \in TopicList : \E raw \in RawOf(v, TopicListForms(v) \cup SpoiledTopicListForms(v)) :
          LET r == ValidateTopicList(raw)
          IN IF r.ok
             THEN /\ state' = [state EXCEPT ![sid].topics = Some(r.value)]
                  /\ pc' = "scheduler"
             ELSE /\ pc' = "failed"
                  /\ UNCHANGED state
    /\ UNCHANGED <<tz, inFlight, promptTime, sid, schedulerRead, formatterRead, generated, fmt, pending,
                   clock, saveCall, artifacts, toolResult, nSaves, finalText>>

\* scheduler: instruction reads {topics}, output_schema=FullPlan,
\* output_key="raw_schedule"; the model answers with a plan of `plans` or
\* with malformed JSON
SchedulerRun(plans) ==
    /\ pc = "scheduler"
    /\ trace' = Append(trace, SubAgents[2])
    /\ schedulerRead' = state[sid].topics
    /\ \E v \in plans : \E raw \in RawOf(v, FullPlanForms(v) \cup SpoiledFullPlanForms(v)) :
          /\ generated' = Some(raw)
          /\ LET r == ValidateFullPlan(raw)
             IN IF r.ok
                THEN /\ state' = [state EXCEPT
                                    ![sid].raw_schedule = Some(r.value)]
                     /\ pc' = "formatter"
                ELSE /\ pc' = "failed"
                     /\ UNCHANGED state
    /\ UNCHANGED <<tz, inFlight, promptTime, sid, formatterRead, fmt, pending, clock, saveCall, artifacts,
                   toolResult, nSaves, finalText>>

\* a formatter whose instruction is built anew, with the time of the run
FormatterStart_FreshTime ==
    /\ pc = "formatter"
    /\ fmt = "idle"
    /\ trace' = Append(trace, SubAgents[3])
    /\ formatterRead' = state[sid].raw_schedule
    /\ promptTime' = Some(GmtimeText(clock))
    /\ fmt' = "llm"
    /\ UNCHANGED <<tz, inFlight, pc, sid, state, schedulerRead, generated, pending,
                   clock, saveCall, artifacts, toolResult, nSaves, finalText>>

\* formatter: instruction (the text built when the module was loaded) reads
\* {raw_schedule}; the model takes its turn
FormatterStart ==
    /\ pc = "formatter"
    /\ fmt = "idle"
    /\ trace' = Append(trace, SubAgents[3])
    /\ formatterRead' = state[sid].raw_schedule
    /\ promptTime' = Some(InstructionTime)
    /\ fmt' = "llm"
    /\ UNCHANGED <<tz, inFlight, pc, sid, state, schedulerRead, generated, pending,
                   clock, saveCall, artifacts, toolResult, nSaves, finalText>>

\* the formatter model calls the tool save_study_plan(markdown_content)
FormatterCallSave ==
    /\ pc = "formatter"
    /\ fmt = "llm"
    /\ nSaves < MaxSaves
    /\ \E markdown_content \in MarkdownTexts :
          pending' = Some(markdown_content)
    /\ fmt' = "tool"
    /\ nSaves' = nSaves + 1
    /\ UNCHANGED <<tz, inFlight, promptTime, pc, sid, state, trace, schedulerRead, formatterRead,
                   generated, clock, saveCall, artifacts, toolResult, finalText>>

\* save_study_plan runs up to its await: it reads the clock, builds the file
\* name and the bytes and issues save_artifact; a text that cannot be
\* encoded makes it return its error message without a call
SaveStudyPlan ==
    /\ pc = "formatter"
    /\ fmt = "tool"
    /\ LET r == SaveStudyPlanCall(Get(pending), Now)
       IN /\ saveCall' = r.call
          /\ IF r.call = None
             THEN /\ toolResult' = r.message
                  /\ fmt' = "llm"
                  /\ UNCHANGED inFlight
             ELSE /\ inFlight' = Append(inFlight, Get(r.call))
                  /\ fmt' = "saving"
                  /\ UNCHANGED toolResult
    /\ UNCHANGED <<tz, pc, sid, state, trace, schedulerRead, formatterRead,
                   generated, pending, clock, artifacts, nSaves, finalText,
                   promptTime>>

\* the awaited save_artifact returns or raises and save_study_plan runs to
\* its end; an exception leaving it ends the run
SaveArtifactReturns(adapter) ==
    /\ pc = "formatter"
    /\ fmt = "saving"
    /\ LET r == SaveStudyPlanReturn(Head(inFlight), artifacts, adapter)
       IN /\ inFlight' = Tail(inFlight)
          /\ artifacts' = r.store
          /\ toolResult' = r.message
          /\ IF r.raises
             THEN pc' = "failed" /\ fmt' = "idle"
             ELSE pc' = pc /\ fmt' = "llm"
    /\ UNCHANGED <<tz, sid, state, trace, schedulerRead, formatterRead, generated,
                   pending, clock, saveCall, nSaves, finalText, promptTime>>

\* the formatter model, given the schedule and what the tool returned,
\* answers; its last event ends the run and get_final_response takes the
\* text of its first part
FormatterRespond ==
    /\ pc = "formatter"
    /\ fmt = "llm"
    /\ \E formatted_text \in ResponsesAfter(toolResult, pending) :
          finalText' = Some(formatted_text)
    /\ pc' = "done"
    /\ fmt' = "idle"
    /\ UNCHANGED <<tz, inFlight, promptTime, sid, state, trace, schedulerRead, formatterRead, generated,
                   pending, clock, saveCall, artifacts, toolResult, nSaves>>

\* time passes, or the system clock is set: the clock shows another second
Tick ==
    /\ \E t \in ClockValues \ {clock} : clock' = t
    /\ UNCHANGED <<tz, inFlight, promptTime, pc, sid, state, trace, schedulerRead, formatterRead,
                   generated, fmt, pending, saveCall, artifacts, toolResult,
                   nSaves, finalText>>

\* get_final_response called again on the same session service: another
\* run, on session s (created if it does not exist, kept if it does); the
\* sessions' state stays as the earlier runs left it
NextRun(s) ==
    /\ pc \in {"done", "failed"}
    /\ pc' = "extractor"
    /\ sid' = s
    /\ trace' = <<>>
    /\ schedulerRead' = None
    /\ formatterRead' = None
    /\ generated' = None
    /\ fmt' = "idle"
    /\ pending' = None
    /\ saveCall' = None
    /\ toolResult' = None
    /\ nSaves' = 0
    /\ finalText' = None
    /\ promptTime' = None
    /\ UNCHANGED <<tz, state, clock, artifacts, inFlight>>

\* save_study_plan(markdown_content, tool_context) called on its own, outside
\* a pipeline run, on the event loop and artifact store of the earlier
\* calls: it runs up to its await
DirectCall(markdown_content) ==
    /\ pc = "idle"
    /\ nSaves < MaxCalls
    /\ Len(inFlight) < MaxInFlight
    /\ pending' = Some(markdown_content)
    /\ nSaves' = nSaves + 1
    /\ LET r == SaveStudyPlanCall(markdown_content, Now)
       IN /\ saveCall' = r.call
          /\ IF r.call = None
             THEN toolResult' = r.message /\ UNCHANGED inFlight
             ELSE inFlight' = Append(inFlight, Get(r.call))
                      /\ UNCHANGED toolResult
    /\ UNCHANGED <<tz, pc, sid, state, trace, schedulerRead, formatterRead,
                   generated, fmt, clock, artifacts, finalText, promptTime>>

\* the save_artifact awaited by the i-th pending call returns or raises, and
\* that save_study_plan runs to its end
DirectReturn(i, adapter) ==
    /\ pc = "idle"
    /\ i \in 1..Len(inFlight)
    /\ LET r == SaveStudyPlanReturn(inFlight[i], artifacts, adapter)
       IN /\ artifacts' = r.store
          /\ toolResult' = r.message
    /\ inFlight' = SubSeq(inFlight, 1, i - 1)
                       \o SubSeq(inFlight, i + 1, Len(inFlight))
    /\ UNCHANGED <<tz, pc, sid, state, trace, schedulerRead, formatterRead,
                   generated, fmt, pending, clock, saveCall, nSaves,
                   finalText, promptTime>>

\* Seven days of 4 hours of study, numbered 1 to 7
WeekWithoutBreak ==
    [plan |-> [d \in 1..7 |->
                  [day |-> d, task |-> StudyTask, estimated_hours |-> 40]],
     total_study_days |-> 7,
     total_hours |-> 280]

\* The generated plans of the scenarios: an empty plan, one entry of 5.5
\* hours, two entries numbered 2 then 1.
SamplePlans ==
    {[plan |-> <<>>, total_study_days |-> 0, total_hours |-> 0],
     [plan |-> <<[day |-> 1, task |-> StudyTask, estimated_hours |-> 55]>>,
      total_study_days |-> 1, total_hours |-> 40],
     [plan |-> <<[day |-> 2, task |-> StudyTask, estimated_hours |-> 40],
                 [day |-> 1, task |-> BreakTask, estimated_hours |-> 0]>>,
      total_study_days |-> 1, total_hours |-> 40]}

\* The extractor, the scheduler and the formatter's start, the scheduler
\* model answering from `plans`
Pipeline(plans) ==
    \/ \E s \in Sessions : StartRun(s)
    \/ ExtractorRun
    \/ SchedulerRun(plans)
    \/ FormatterStart

\* The three stages up to the formatter's final response
Stages(plans) == Pipeline(plans) \/ FormatterRespond

\* The tool calls of the formatter, and the clock
Tool ==
    \/ FormatterCallSave
    \/ SaveStudyPlan
    \/ \E a \in AdapterOutcomes : SaveArtifactReturns(a)
    \/ Tick

\* One run of the pipeline on the plans of the scenarios
Next == Stages(SamplePlans) \/ Tool

Spec == Init /\ [][Next]_vars

\* One run of the pipeline on every plan of the schema up to MaxPlanLen
\* entries, up to the formatter model being given the stored plan (what it
\* answers and what save_study_plan does write neither the session state
\* nor the generated plan).
NextPlans == Pipeline(FullPlan(MaxPlanLen))

SpecPlans == Init /\ [][NextPlans]_vars

\* Runs one after another on the sessions of one session service, on the
\* plans of the scenarios and the week without a break, without tool calls
NextSessions ==
    \/ Stages(SamplePlans \cup {WeekWithoutBreak})
    \/ \E s \in Sessions : NextRun(s)

SpecSessions == Init /\ [][NextSessions]_vars

\* save_study_plan called several times on one event loop and one artifact
\* store while the clock runs
NextSaves ==
    \/ \E markdown_content \in SampleTexts : DirectCall(markdown_content)
    \/ \E i \in 1..MaxInFlight : \E a \in AdapterOutcomes : DirectReturn(i, a)
    \/ Tick

SpecSaves == Init /\ [][NextSaves]_vars

----------------------------------------------------------------------------
(* Properties                                                              *)

\* the plan stored under raw_schedule in the run's session
HasSchedule == sid # NoSession /\ state[sid].raw_schedule # None
Schedule == Get(state[sid].raw_schedule)

IsPrefix(a, b) == Len(a) <= Len(b) /\ SubSeq(b, 1, Len(a)) = a

\* The sub-agents run in the order of sub_agents, each at most once.
PipelineOrder == IsPrefix(trace, SubAgents)

\* The scheduler's prompt holds the topics the extractor wrote and the
\* formatter's prompt the raw_schedule the scheduler wrote.
OneWayFlow ==
    /\ schedulerRead # None =>
          /\ trace[1] = "ExtractorAgent"
          /\ schedulerRead = state[sid].topics
    /\ formatterRead # None =>
          /\ trace[2] = "SchedulerAgent"
          /\ formatterRead = state[sid].raw_schedule
          /\ ValidateFullPlan(Get(generated)).ok
          /\ Get(formatterRead) = ValidateFullPlan(Get(generated)).value

\* A completed run leaves both keys in the session state.
CompletedRunState ==
    pc = "done" =>
        /\ trace = SubAgents
        /\ state[sid].topics # None
        /\ state[sid].raw_schedule # None
        /\ finalText # None

\* Order, one-way flow and both keys: what the pipeline itself decides.
PipelineOrderAndFlow == PipelineOrder /\ OneWayFlow /\ CompletedRunState

\* C1: in every run the stages execute in the order extractor, scheduler,
\* formatter, each at most once, the scheduler reads the topics the
\* extractor wrote, the formatter the raw_schedule the scheduler wrote, and a
\* completed run has topics, raw_schedule and a non-empty final text.
C1_OrderedRunWithNonEmptyText ==
    /\ PipelineOrderAndFlow
    /\ pc = "done" =>
          /\ Get(finalText) # None
          /\ Get(Get(finalText)) # <<>>

\* C2: whenever tool_context.save_artifact raises, save_study_plan returns
\* an error message instead of raising and the run goes on to the formatter
\* model's turn with the session state as it was; and the text a run
\* returns after a failed save is the rendered table of its schedule.
C2_SaveFailureNotFatal ==
    [][/\ \A a \in CaughtOutcomes :
              SaveArtifactReturns(a) =>
                  /\ pc' = "formatter"
                  /\ fmt' = "llm"
                  /\ toolResult' = Some(ErrorMessage(a))
                  /\ artifacts' = artifacts
                  /\ state' = state
       /\ (FormatterRespond /\ toolResult # None
               /\ Get(toolResult).kind = "error") =>
              /\ Get(finalText') # None
              /\ IsRenderingOf(Get(Get(finalText')), Schedule.plan)]_vars

IsDigitChar(c) == \E i \in 1..10 : DigitChars[i] = c

DigitValue(c) == (CHOOSE i \in 1..10 : DigitChars[i] = c) - 1

TwoDigits(f, i) == 10 * DigitValue(f[i]) + DigitValue(f[i + 1])

\* study_plan_<YYYYMMDD_HHMMSS>.md, the digits a date and a time of day
IsStudyPlanFilename(f) ==
    /\ Len(f) = 29
    /\ SubSeq(f, 1, 11) = <<"s", "t", "u", "d", "y", "_", "p", "l", "a", "n", "_">>
    /\ \A i \in (12..19) \cup (21..26) : IsDigitChar(f[i])
    /\ f[20] = "_"
    /\ SubSeq(f, 27, 29) = <<".", "m", "d">>
    /\ TwoDigits(f, 16) \in 1..12
    /\ TwoDigits(f, 18) \in 1..31
    /\ TwoDigits(f, 21) \in 0..23
    /\ TwoDigits(f, 23) \in 0..59
    /\ TwoDigits(f, 25) \in 0..59

\* Code points of a UTF-8 byte sequence, read by the lead byte.
RECURSIVE DecodeUtf8(_)
DecodeUtf8(b) ==
    IF b = <<>> THEN <<>>
    ELSE IF b[1] < 128 THEN <<b[1]>> \o DecodeUtf8(SubSeq(b, 2, Len(b)))
    ELSE IF b[1] < 224
         THEN <<(b[1] - 192) * 64 + (b[2] - 128)>>
              \o DecodeUtf8(SubSeq(b, 3, Len(b)))
    ELSE IF b[1] < 240
         THEN <<(b[1] - 224) * 4096 + (b[2] - 128) * 64 + (b[3] - 128)>>
              \o DecodeUtf8(SubSeq(b, 4, Len(b)))
    ELSE <<(b[1] - 240) * 262144 + (b[2] - 128) * 4096 + (b[3] - 128) * 64
           + (b[4] - 128)>> \o DecodeUtf8(SubSeq(b, 5, Len(b)))

IsWellFormedUtf8(b) ==
    /\ \A i \in 1..Len(b) : b[i] \in 0..255
    /\ Len(b) > 0 =>
          \/ b[1] < 128
          \/ b[1] \in 192..223 /\ Len(b) >= 2
          \/ b[1] \in 224..239 /\ Len(b) >= 3
          \/ b[1] \in 240..247 /\ Len(b) >= 4

\* C6: every save_artifact call save_study_plan issues names the file
\* study_plan_<YYYYMMDD_HHMMSS>.md, has content type text/markdown and the
\* metadata {type: study_schedule, format: markdown}, and carries as bytes
\* the UTF-8 encoding of the markdown text given, unchanged. (The call is
\* looked at when save_study_plan has returned: pending is then its text.)
C6_ArtifactLayout ==
    (saveCall # None /\ fmt # "tool") =>
        LET c == Get(saveCall)
        IN /\ IsStudyPlanFilename(c.filename)
           /\ c.mime_type = "text/markdown"
           /\ DOMAIN c.custom_metadata = {"type", "format"}
           /\ c.custom_metadata.type = "study_schedule"
           /\ c.custom_metadata.format = "markdown"
           /\ IsWellFormedUtf8(c.data)
           /\ DecodeUtf8(c.data) = Get(pending)

\* 'A' and the euro sign saved at 01:00:00 on 25 October 2026.
C6_Witness ==
    /\ saveCall # None
    /\ Get(saveCall).filename =
          <<"s", "t", "u", "d", "y", "_", "p", "l", "a", "n", "_",
            "2", "0", "2", "6", "1", "0", "2", "5", "_",
            "0", "1", "0", "0", "0", "0", ".", "m", "d">>
    /\ Get(saveCall).data = <<65, 226, 130, 172>>
    /\ Get(pending) = <<65, 8364>>
    /\ Len(artifacts) = 1
    /\ artifacts[1].artifact = Get(saveCall)

\* C10: the text returned to the caller is identical whether the artifact
\* save succeeds or fails: when save_artifact is awaited, save_study_plan
\* returns with either outcome, with a file name and version in one case
\* and an error message in the other, and every final response possible
\* after the one is equal to every final response possible after the
\* other.
C10_SaveOutcomeDoesNotInfluence ==
    fmt = "saving" =>
        LET call == Head(inFlight)
            saved == SaveStudyPlanReturn(call, artifacts, "ok")
            failed == SaveStudyPlanReturn(call, artifacts, "Exception")
        IN /\ ~saved.raises
           /\ ~failed.raises
           /\ Get(saved.message).kind = "saved"
           /\ Get(failed.message).kind = "error"
           /\ \A t1 \in ResponsesAfter(saved.message, pending) :
                  \A t2 \in ResponsesAfter(failed.message, pending) : t1 = t2

----------------------------------------------------------------------------
(* The plan exposed as raw_schedule                                        *)

\* the plan the scheduler model generated in this run, when it is one of the
\* schema, its numbers read as numbers
HasGenerated ==
    /\ generated # None
    /\ \/ Get(generated).kind = "wellformed"
       \/ /\ Get(generated).kind = "typed"
          /\ FullPlanConvertible(Get(generated).value)
GeneratedPlan ==
    IF Get(generated).kind = "wellformed"
    THEN Get(generated).value
    ELSE ConvertFullPlan(Get(generated).value)

Clamp(h) == IF h > MAX_DAILY_HOURS THEN MAX_DAILY_HOURS ELSE IF h < 0 THEN 0 ELSE h

HoursInRange(plan) ==
    \A i \in 1..Len(plan) :
        plan[i].estimated_hours >= 0 /\ plan[i].estimated_hours <= MAX_DAILY_HOURS

DaysNonDecreasing(plan) ==
    \A i \in 1..(Len(plan) - 1) : plan[i + 1].day >= plan[i].day

StudyDayCount(plan) ==
    Cardinality({i \in 1..Len(plan) : plan[i].estimated_hours > 0})

\* C3: every entry of the plan exposed as raw_schedule has hours within
\* [0.0, 4.0], whatever the generator produced: hours above 4.0 are clamped
\* to 4.0 and negative hours to 0.0.
C3_HoursClamped ==
    HasSchedule =>
        /\ HoursInRange(Schedule.plan)
        /\ Len(Schedule.plan) = Len(GeneratedPlan.plan)
        /\ \A i \in 1..Len(Schedule.plan) :
              Schedule.plan[i].estimated_hours =
                  Clamp(GeneratedPlan.plan[i].estimated_hours)

\* C4: the day numbers of the plan exposed as raw_schedule are
\* non-decreasing in sequence order, for any plan the generator produces.
C4_DaysMonotonic == HasSchedule => DaysNonDecreasing(Schedule.plan)

\* C5: in the plan exposed as raw_schedule total_study_days is the number of
\* entries with hours above 0 and total_hours is the sum of the entries'
\* hours, whatever totals the generated plan carried.
C5_AggregatesRecomputed ==
    HasSchedule =>
        /\ Schedule.total_study_days = StudyDayCount(Schedule.plan)
        /\ Schedule.total_hours = SumHours(Schedule.plan)

\* C7: the plan exposed as raw_schedule has as many entries as the generated
\* plan, in the same order, and when the generated days are not monotonic
\* they are renumbered 1, 2, ... on the same entries.
C7_EntriesKeptDaysRenumbered ==
    HasSchedule =>
        /\ Len(Schedule.plan) = Len(GeneratedPlan.plan)
        /\ \A i \in 1..Len(Schedule.plan) :
              Schedule.plan[i].estimated_hours \in
                  {GeneratedPlan.plan[i].estimated_hours,
                   Clamp(GeneratedPlan.plan[i].estimated_hours)}
        /\ ~DaysNonDecreasing(GeneratedPlan.plan) =>
              \A i \in 1..Len(Schedule.plan) : Schedule.plan[i].day = i

\* hours out of [0.0, 4.0] or a non-monotonic day sequence
HasHardViolation(plan) == ~HoursInRange(plan) \/ ~DaysNonDecreasing(plan)

\* C9: the verdict of validating a generated plan is not ok exactly when the
\* plan has a hard violation, and the plan delivered with a hard violation is
\* the corrected one.
C9_VerdictReflectsHardViolations ==
    HasGenerated =>
        /\ ValidateFullPlan(Get(generated)).ok
              <=> ~HasHardViolation(GeneratedPlan.plan)
        /\ HasSchedule => ~HasHardViolation(Schedule.plan)

\* C11: the text a completed run returns is the table of its schedule: the
\* heading, the six-column header row, the dash separator row, then exactly
\* one row per StudyDay in plan order; for an empty plan the header alone.
C11_RenderingRowComplete ==
    (pc = "done" /\ HasSchedule) =>
        /\ Get(finalText) # None
        /\ IsRenderingOf(Get(Get(finalText)), Schedule.plan)

\* a run can return the header-only table for an empty plan
C11_HeaderOnlyReturned ==
    /\ pc = "done"
    /\ HasSchedule
    /\ Schedule.plan = <<>>
    /\ finalText = Some(Some(HeaderOnlyTable))
    /\ IsRenderingOf(Get(Get(finalText)), Schedule.plan)

\* some field of a typed answer is not written in the JSON type of its
\* schema type: an int as a number without fraction, a float as a number, a
\* str as a string
HasWrongType(q) ==
    \/ JsonType(q.total_study_days) # "int"
    \/ JsonType(q.total_hours) \notin {"int", "float"}
    \/ \E i \in 1..Len(q.plan) :
           \/ JsonType(q.plan[i].day) # "int"
           \/ JsonType(q.plan[i].task) # "str"
           \/ JsonType(q.plan[i].estimated_hours) \notin {"int", "float"}

\* C12 as claimed: a scheduler answer with a field of the wrong type or
\* a missing field is rejected where it is parsed: the run fails at the
\* scheduler, nothing is stored under raw_schedule, and the answer is never
\* read by the formatter, returned as text, or handed to save_study_plan.
C12_MalformedPlanRejected ==
    (/\ generated # None
     /\ \/ Get(generated).kind = "missing_field"
        \/ /\ Get(generated).kind = "typed"
           /\ HasWrongType(Get(generated).value)) =>
        /\ pc = "failed"
        /\ trace = <<SubAgents[1], SubAgents[2]>>
        /\ state[sid].raw_schedule = None
        /\ formatterRead = None
        /\ finalText = None
        /\ pending = None
        /\ saveCall = None
        /\ artifacts = <<>>

\* the answer has a field missing, or 'abc' or null where its total_hours
\* are due, or a float with a fraction where its total_study_days are due,
\* or a number where a task is due
IsRefusedForm(raw) ==
    \/ raw.kind = "missing_field"
    \/ /\ raw.kind = "typed"
       /\ \/ raw.value.total_hours = JsonStr(NotANumber)
          \/ raw.value.total_hours = JsonNull
          \/ /\ JsonType(raw.value.total_study_days) = "float"
             /\ JsonValue(raw.value.total_study_days) % 10 # 0
          \/ \E i \in 1..Len(raw.value.plan) :
                 JsonType(raw.value.plan[i].task) # "str"

\* C12, amended: a scheduler answer with a missing field, or with a value
\* of the wrong type that cannot be converted to the field's type ('abc' or
\* null for a number, 1.5 for an int, a number for a string), is rejected
\* where it is parsed: the run fails at the scheduler, nothing is stored
\* under raw_schedule, and the answer is never read by the formatter,
\* returned as text, or handed to save_study_plan. An answer whose
\* wrong-typed values can be converted (numbers written as the strings
\* '2', '5.5', ' +2.0', '+5.50 ', the int 2 written 2.0, the float 4.0
\* written 4, 1 and 0 written true and false) is accepted, and what is
\* stored is the whole plan with every value converted. No partly parsed
\* plan is stored.
C12_UnconvertiblePlanRejected ==
    generated # None =>
        LET raw == Get(generated)
        IN /\ IsRefusedForm(raw) =>
                  /\ pc = "failed"
                  /\ trace = <<SubAgents[1], SubAgents[2]>>
                  /\ state[sid].raw_schedule = None
                  /\ formatterRead = None
                  /\ finalText = None
                  /\ pending = None
                  /\ saveCall = None
                  /\ artifacts = <<>>
           /\ ~IsRefusedForm(raw) =>
                  /\ state[sid].raw_schedule # None
                  /\ raw.kind = "wellformed" => Schedule = raw.value
                  /\ raw.kind = "typed" =>
                         raw.value \in {QuoteFullPlan(Schedule),
                                        LooseFullPlan(Schedule),
                                        WholeFullPlan(Schedule),
                                        BoolFullPlan(Schedule)}
                  /\ pc = "failed" => fmt = "idle" /\ saveCall # None
                  /\ SubAgents[3] \in {trace[i] : i \in 1..Len(trace)}
                         => formatterRead = state[sid].raw_schedule

\* the run failed on a plan whose total_hours is 'abc'
C12_Witness ==
    /\ pc = "failed"
    /\ generated # None
    /\ Get(generated).kind = "typed"
    /\ Get(generated).value.total_hours = JsonStr(NotANumber)
    /\ Len(Get(generated).value.plan) = 1
    /\ Get(generated).value.plan[1].day = JsonStr(<<49>>)
    /\ state[sid].topics # None
    /\ state[sid].raw_schedule = None
    /\ clock = StartClock + 1

\* validate_schedule_structure(response): raw_schedule is present with at
\* least one entry, every entry's hours are 0 or more, and the text holds
\* '|', 'Day' and 'Task'
ValidScheduleStructure ==
    /\ HasSchedule
    /\ Len(Schedule.plan) > 0
    /\ \A i \in 1..Len(Schedule.plan) : Schedule.plan[i].estimated_hours >= 0
    /\ finalText # None
    /\ Get(finalText) # None
    /\ Contains(Get(Get(finalText)), <<124>>)
    /\ Contains(Get(Get(finalText)), <<68, 97, 121>>)
    /\ Contains(Get(Get(finalText)), <<84, 97, 115, 107>>)

\* C13: runs on different session ids do not touch each other and each
\* ends up with its own valid outputs: no step of a run changes the
\* 'topics' or 'raw_schedule' of a session other than its own, the
\* scheduler and the formatter read the keys of their own session, and a
\* completed run leaves in its own session the topics and the plan that its
\* own stages produced, and its outputs pass validate_schedule_structure.
C13_SessionsIsolated ==
    [][/\ \A s \in Sessions : s # sid' => state'[s] = state[s]
       /\ schedulerRead' # None => schedulerRead' = state'[sid'].topics
       /\ formatterRead' # None => formatterRead' = state'[sid'].raw_schedule
       /\ pc' = "done" =>
              /\ state'[sid'].topics # None
              /\ ValidateFullPlan(Get(generated')).ok
              /\ state'[sid'].raw_schedule
                     = Some(ValidateFullPlan(Get(generated')).value)
              /\ formatterRead' = state'[sid'].raw_schedule
              /\ ValidScheduleStructure']_vars

\* C14: in the schedule a run delivers, every entry whose task does not
\* contain 'break' (in any letter case) has estimated_hours > 0; zero hours
\* occur on break entries only.
C14_NonBreakHoursPositive ==
    HasSchedule =>
        \A i \in 1..Len(Schedule.plan) :
            ~IsBreakEntry(Schedule.plan[i]) =>
                Schedule.plan[i].estimated_hours > 0

\* C15: the rendering is deterministic and takes nothing from the wall
\* clock: at the formatter model's turn the stored plan and what the tool
\* returned leave one final response possible, and the formatter's prompt
\* carries no time.
C15_CoreDeterministic ==
    (pc = "formatter" /\ fmt = "llm") =>
        /\ \A t1 \in ResponsesAfter(toolResult, pending) :
               \A t2 \in ResponsesAfter(toolResult, pending) : t1 = t2
        /\ promptTime = None

\* C16: for a generated plan with 7 consecutive day values without a day
\* of 0 hours, the validation records a NoBreakInWindow soft warning and
\* accepts the plan unchanged.
C16_NoBreakWarned ==
    (HasGenerated /\ LacksBreak(GeneratedPlan.plan)) =>
        LET r == ValidateFullPlan(Get(generated))
        IN /\ r.ok
           /\ "soft_warnings" \in DOMAIN r
           /\ "NoBreakInWindow" \in r.soft_warnings
           /\ HasSchedule /\ Schedule = GeneratedPlan

\* C17 as claimed: the file name of a call tells its second from every
\* other: no other second the clock can show gives the name of the call.
C17_FilenamePerSecond ==
    [][\A c \in SampleTexts :
          (DirectCall(c) /\ saveCall' # None) =>
              \A t \in ClockValues :
                  (Filename(LocalTime(tz, t)) = Get(saveCall').filename)
                      <=> (t = clock)]_vars

\* C17, amended: the artifact file name is that of the wall-clock second
\* read at the call (the local time of datetime.now()) and of nothing
\* else: it is fixed before the save is attempted (a save that then fails
\* or completes seconds later was given it too) and does not depend on the
\* content; calls that read the same wall-clock second give the same name
\* and calls that read different ones different names, so that calls made
\* at different times share a name where local time shows a second again;
\* stored artifacts of one name are told apart by their version alone,
\* which counts the artifacts of that name stored before.
C17_FilenamePerWallClockSecond ==
    [][/\ \A c \in SampleTexts :
              (DirectCall(c) /\ saveCall' # None) =>
                  LET name == Get(saveCall').filename
                  IN /\ name = Filename(Now)
                     /\ \A t \in ClockValues :
                            (Filename(LocalTime(tz, t)) = name)
                                <=> (LocalTime(tz, t) = Now)
                     /\ tz = "Europe/London" /\ clock = StartClock =>
                            Filename(LocalTime(tz, clock + 60 * 60)) = name
                     /\ inFlight' = Append(inFlight, Get(saveCall'))
                     /\ artifacts' = artifacts
       /\ \A i \in 1..MaxInFlight : \A a \in AdapterOutcomes :
              DirectReturn(i, a) =>
                  LET name == inFlight[i].filename
                  IN /\ a = "ok" =>
                            /\ Len(artifacts') = Len(artifacts) + 1
                            /\ artifacts'[Len(artifacts')].filename = name
                            /\ artifacts'[Len(artifacts')].artifact
                                   = inFlight[i]
                            /\ artifacts'[Len(artifacts')].version
                                   = Cardinality({k \in 1..Len(artifacts) :
                                         artifacts[k].filename = name})
                            /\ toolResult' = Some(SavedMessage(name,
                                   artifacts'[Len(artifacts')].version))
                     /\ a # "ok" => artifacts' = artifacts]_vars

\* a save before the end of summer time, one a second later and one an
\* hour after the first: the first and the third read the same wall-clock
\* second and share a name, with versions 0 and 1 for different contents
C17_Witness ==
    /\ tz = "Europe/London"
    /\ Len(artifacts) = 3
    /\ artifacts[1].filename = Filename(LocalTime(tz, StartClock))
    /\ artifacts[2].filename = Filename(LocalTime(tz, StartClock + 1))
    /\ artifacts[3].filename = Filename(LocalTime(tz, StartClock + 60 * 60))
    /\ artifacts[1].filename = artifacts[3].filename
    /\ artifacts[1].filename # artifacts[2].filename
    /\ artifacts[1].version = 0
    /\ artifacts[2].version = 0
    /\ artifacts[3].version = 1
    /\ artifacts[1].artifact.data # artifacts[3].artifact.data
    /\ clock = StartClock + 60 * 60

\* C18: the time in the formatter's instruction is the one captured when
\* the module was loaded: whenever a run reaches the formatter, however
\* much later, its prompt carries the load time; the file name of a saved
\* artifact is that of the clock at the save_study_plan call. The two
\* times of one run can therefore differ.
C18_InstructionTimeFixed ==
    [][/\ promptTime' # None => Get(promptTime') = GmtimeText(LoadTime)
       /\ (SaveStudyPlan /\ saveCall' # None) =>
              Get(saveCall').filename = Filename(Now)]_vars

\* a run whose prompt says Sun, 25 Oct 2026 00:59:59 and whose artifact is
\* named for 01:00:00
C18_Witness ==
    /\ pc = "done"
    /\ clock = StartClock + 1
    /\ promptTime = Some(<<"S", "u", "n", ",", " ", "2", "5", " ",
                           "O", "c", "t", " ", "2", "0", "2", "6", " ",
                           "0", "0", ":", "5", "9", ":", "5", "9", " ",
                           "+", "0", "0", "0", "0">>)
    /\ saveCall # None
    /\ Get(saveCall).filename = Filename(StartClock + 1)
    /\ Get(saveCall).filename # Filename(LoadTime)
    /\ Len(artifacts) = 1

====
